---- MODULE Spec2Model ----
(***************************************************************************)
(* A model of the workbook-composition engine of the Excel API service:    *)
(* ExcelService (createWorkbook, processSheet, the cell / range / table    *)
(* writers, applyCellStyle, getCellAddress, normalizeColor) and the        *)
(* template filler (fillTemplate, fillWorksheetTemplate), together with    *)
(* the error handler that turns a thrown error into an HTTP status.        *)
(*                                                                         *)
(* Strings the code computes on (addresses, colours) are sequences of      *)
(* one-character strings; a character's code is its place in Ascii.        *)
(***************************************************************************)
EXTENDS Integers, Sequences, FiniteSets, TLC

VARIABLES
  \* ---- address resolver (getCellAddress) ----
  startCol,      \* the anchor column letters handed to getCellAddress
  row,           \* the row number handed to getCellAddress
  colOffset,     \* the column offset handed to getCellAddress
  address,       \* the returned address
  apc,           \* "call" before the call, "done" after it, "idle" when unused
  \* ---- range and table writers on one worksheet ----
  wdef,          \* the RangeSpec / TableSpec being written
  worksheet,     \* the worksheet the writer works on
  wout,          \* the writer's outcome: ok flag and the cell writes it made
  wpc,           \* "range" | "table" before the call, "done" after, "idle"
  \* ---- workbook composer (createWorkbook) ----
  payload,       \* the validated request document
  workbook,      \* the workbook under construction: a sequence of worksheets
  cpc,           \* position in createWorkbook
  sheetIdx,      \* index of the sheet of payload.sheets being processed
  phase,         \* index in PhaseOrder of the part of the sheet being processed
  itemIdx,       \* index of the cell / range / table of that part to process
  log,           \* history: the steps createWorkbook has taken, in order
  \* ---- the outcome of a request (composer and filler) ----
  thrown,        \* the error in flight ([k |-> "absent"] if none)
  response,      \* what the caller finally gets ([k |-> "absent"] before)
  \* ---- template filler (fillTemplate / fillWorksheetTemplate) ----
  template,      \* the template file name of the request
  stored,        \* the rows of the worksheet in the template file on disk
  data,          \* the data mapping of the request
  sheet,         \* the rows of the worksheet being filled
  rowsLen,       \* the length of worksheet._rows captured by eachRow's forEach
  rowNumber,     \* the row the outer iteration is at
  colNumber,     \* the cell of that row the inner iteration is at
  visited,       \* history: the <<row, column>> visits of the outer iteration
  fpc,           \* position in fillTemplate, "idle" when unused
  \* ---- style normalizer (applyCellStyle, applyCellDataType, normalizeColor,
  \*      applySheetFormatting) ----
  cellBefore,    \* the cell handed to applyCellStyle / applyCellDataType
  styleArg,      \* the StyleSpec handed to applyCellStyle
  dataTypeArg,   \* the data-type tag handed to applyCellDataType
  formatArg,     \* the explicit number format handed to applyCellDataType
  colorArg,      \* the colour handed to normalizeColor
  cellAfter,     \* the cell after the call
  colorOut,      \* the outcome of normalizeColor
  sheetArg,      \* the worksheet handed to applySheetFormatting
  formattingArg, \* the formatting options handed to applySheetFormatting
  sheetAfter,    \* the worksheet after the call
  spc,           \* the function about to be called, then "styled" | "typed" |
                 \* "normalized" | "formatted"; "idle" when unused
  \* ---- request handlers (ExcelController) and the query gate ----
  route,         \* the handler (or executeSafeQuery) the request goes to
  body,          \* req.body (the query, for executeSafeQuery on its own)
  hpc,           \* position in the handler, "idle" when unused
  validated,     \* value: the validated body with its defaults
  effects,       \* history: the calls the handler has made, in order
  queryData,     \* [threw, data]: whether executeSafeQuery threw, and data
  raised,        \* the error the handler threw
  reply,         \* what the client is answered
  dbConnection,  \* TRUE when the database connection is initialised
  \* ---- template store (upload, listTemplates, deleteTemplate) ----
  templatesDir,  \* the names of the files in the template directory
  uploads,       \* history: the stored names of the files uploaded, in order
  deletions,     \* history: the names deleteTemplate has deleted
  listing,       \* the filenames of the last answer of listTemplates
  storeReply,    \* what the client was answered last
  requests,      \* the number of requests served (-1 when unused)
  \* ---- compositions running side by side ----
  heap,          \* the workbooks created so far
  jobs           \* the compositions: request, position, workbook, result

addrVars == <<startCol, row, colOffset, address, apc>>
writerVars == <<wdef, worksheet, wout, wpc>>
composerVars == <<payload, workbook, cpc, sheetIdx, phase, itemIdx, log>>
outVars == <<thrown, response>>
fillVars == <<template, stored, data, sheet, rowsLen, rowNumber, colNumber, visited, fpc>>
styleVars ==
  <<cellBefore, styleArg, dataTypeArg, formatArg, colorArg, cellAfter, colorOut, sheetArg,
    formattingArg, sheetAfter, spc>>
apiVars == <<route, body, hpc, validated, effects, queryData, raised, reply, dbConnection>>
engineVars == <<addrVars, writerVars, composerVars, outVars, fillVars, styleVars>>
storeVars == <<templatesDir, uploads, deletions, listing, storeReply, requests>>
pairVars == <<heap, jobs>>
serviceVars == <<apiVars, storeVars, pairVars>>
vars == <<engineVars, serviceVars>>

-----------------------------------------------------------------------------
(* Bounds of the model *)

\* largest row number an anchor is given
MaxRow == 11
\* largest column offset handed to getCellAddress
MaxColOffset == 28
\* offsets range down to -MaxNegOffset
MaxNegOffset == 2
\* most rows of a table's data, and most rows of a range's data
MaxDataRows == 2
\* most elements of one row of a range's data
MaxRangeCols == 2
\* most sheets of a request document
MaxSheets == 2
\* most rows of a template worksheet
MaxTemplateRows == 2
\* most elements of the array in the data of a template request
MaxItems == 2
\* the longest run of hex digits handed to normalizeColor
MaxHexLen == 8
\* the most rows of a worksheet handed to applySheetFormatting
MaxGridRows == 2
\* the most tokens of a query handed to executeSafeQuery on its own
MaxQueryTokens == 3
\* the most rows the database answers a query with
MaxQueryRows == 2
\* the most requests the template store is sent
MaxRequests == 4

-----------------------------------------------------------------------------
(* Characters and strings *)

\* JavaScript's undefined / an absent property
Absent == [k |-> "absent"]

\* the printable ASCII characters, code 32 first (the double quote, the
\* backslash and the backtick are written by name)
Ascii ==
  << " ", "!", "QUOTE", "#", "$", "%", "&", "'", "(", ")", "*", "+", ",", "-", ".", "/",
     "0", "1", "2", "3", "4", "5", "6", "7", "8", "9", ":", ";", "<", "=", ">", "?",
     "@", "A", "B", "C", "D", "E", "F", "G", "H", "I", "J", "K", "L", "M", "N", "O",
     "P", "Q", "R", "S", "T", "U", "V", "W", "X", "Y", "Z", "[", "BACKSLASH", "]", "^", "_",
     "BACKTICK", "a", "b", "c", "d", "e", "f", "g", "h", "i", "j", "k", "l", "m", "n", "o",
     "p", "q", "r", "s", "t", "u", "v", "w", "x", "y", "z", "{", "|", "}", "~" >>

\* String.prototype.charCodeAt for one character
CharCode(ch) == 31 + (CHOOSE i \in 1..Len(Ascii) : Ascii[i] = ch)

\* String.fromCharCode: the code is taken modulo 2^16
FromCharCode(n) == Ascii[(n % 65536) - 31]

IsUpper(ch) == CharCode(ch) >= 65 /\ CharCode(ch) <= 90
IsDigit(ch) == CharCode(ch) >= 48 /\ CharCode(ch) <= 57

\* JavaScript's % on integers: the result has the sign of the dividend
JsRem(a, b) == IF a >= 0 THEN a % b ELSE -((-a) % b)

\* the decimal digits of a non-negative integer, as `${n}` renders it
RECURSIVE DecimalString(_)
DecimalString(n) ==
  IF n < 10 THEN <<FromCharCode(48 + n)>>
  ELSE DecimalString(n \div 10) \o <<FromCharCode(48 + (n % 10))>>

\* the longest run of uppercase letters of s that starts at index i
RECURSIVE UpperRun(_, _)
UpperRun(s, i) ==
  IF i > Len(s) \/ ~IsUpper(s[i]) THEN <<>> ELSE <<s[i]>> \o UpperRun(s, i + 1)

\* the longest run of decimal digits of s that starts at index i
RECURSIVE DigitRun(_, _)
DigitRun(s, i) ==
  IF i > Len(s) \/ ~IsDigit(s[i]) THEN <<>> ELSE <<s[i]>> \o DigitRun(s, i + 1)

\* str.match(/[A-Z]+/): the first run of uppercase letters, <<>> for null
MatchUpper(s) ==
  IF \E i \in 1..Len(s) : IsUpper(s[i])
  THEN UpperRun(s, CHOOSE i \in 1..Len(s) :
                     IsUpper(s[i]) /\ \A j \in 1..(i - 1) : ~IsUpper(s[j]))
  ELSE <<>>

\* str.match(/\d+/): the first run of decimal digits, <<>> for null
MatchDigits(s) ==
  IF \E i \in 1..Len(s) : IsDigit(s[i])
  THEN DigitRun(s, CHOOSE i \in 1..Len(s) :
                     IsDigit(s[i]) /\ \A j \in 1..(i - 1) : ~IsDigit(s[j]))
  ELSE <<>>

\* parseInt of a run of decimal digits
RECURSIVE ParseInt(_)
ParseInt(ds) ==
  IF ds = <<>> THEN 0
  ELSE 10 * ParseInt(SubSeq(ds, 1, Len(ds) - 1)) + (CharCode(ds[Len(ds)]) - 48)

\* str.split(':')[0]: the text before the first colon
SplitColonFirst(s) ==
  IF \E i \in 1..Len(s) : s[i] = ":"
  THEN SubSeq(s, 1, (CHOOSE i \in 1..Len(s) :
                       s[i] = ":" /\ \A j \in 1..(i - 1) : s[j] # ":") - 1)
  ELSE s

-----------------------------------------------------------------------------
(* Address resolver *)

\* getCellAddress without the modulo: a column past Z leaves the alphabet
getCellAddress_NoWrap(col, r, off) ==
  LET colCode == CharCode(col[1]) - 65 + off
  IN <<FromCharCode(65 + colCode)>> \o DecimalString(r)

\* ExcelService.getCellAddress(startCol, row, colOffset)
getCellAddress(col, r, off) ==
  LET colCode == CharCode(col[1]) - 65 + off
      colLetter == FromCharCode(65 + JsRem(colCode, 26))
  IN <<colLetter>> \o DecimalString(r)

\* the column number (A = 1, Z = 26, AA = 27) of a run of uppercase letters
RECURSIVE ColumnNumber(_)
ColumnNumber(letters) ==
  IF letters = <<>> THEN 0
  ELSE 26 * ColumnNumber(SubSeq(letters, 1, Len(letters) - 1))
       + (CharCode(letters[Len(letters)]) - 64)

\* the uppercase letters
Letters == {FromCharCode(c) : c \in 65..90}

\* the anchor columns tried: every single letter and some two-letter columns
AnchorColumns == {<<l>> : l \in Letters} \cup {<<"A", "A">>, <<"A", "B">>, <<"B", "A">>, <<"Z", "Z">>}

AddrIdle ==
  /\ startCol = <<>> /\ row = 0 /\ colOffset = 0 /\ address = <<>> /\ apc = "idle"

AddrInit ==
  /\ startCol \in AnchorColumns
  /\ row \in 1..MaxRow
  /\ colOffset \in (0 - MaxNegOffset)..MaxColOffset
  /\ address = <<>>
  /\ apc = "call"

\* one call of getCellAddress
Resolve ==
  /\ apc = "call"
  /\ address' = getCellAddress(startCol, row, colOffset)
  /\ apc' = "done"
  /\ UNCHANGED <<startCol, row, colOffset>>
  /\ UNCHANGED <<writerVars, composerVars, outVars, fillVars, styleVars, serviceVars>>

-----------------------------------------------------------------------------
(* JavaScript values *)

\* Values are records tagged by k: "absent" (undefined), "bool" (b), "num" (n),
\* "str" (s, a string the code never looks into), "chars" (cs, a string as a
\* sequence of characters), "arr" (items) and "obj" (an object: its own
\* properties are the other fields of the record).
Str(s) == [k |-> "str", s |-> s]
Num(n) == [k |-> "num", n |-> n]
Bool(b) == [k |-> "bool", b |-> b]
Chars(cs) == [k |-> "chars", cs |-> cs]
Arr(items) == [k |-> "arr", items |-> items]

\* o.f: the property f of o, undefined when o has none
Prop(o, f) == IF f \in DOMAIN o THEN o[f] ELSE Absent

\* JavaScript truthiness
Truthy(v) ==
  CASE v.k = "absent" -> FALSE
    [] v.k = "bool" -> v.b
    [] v.k = "num" -> v.n # 0
    [] v.k = "str" -> v.s # ""
    [] v.k = "chars" -> v.cs # <<>>
    [] OTHER -> TRUE

\* a || d
OrElse(a, d) == IF Truthy(a) THEN a ELSE d

\* Array.isArray
IsArray(v) == v.k = "arr"

-----------------------------------------------------------------------------
(* Style normalizer *)

\* String.prototype.toUpperCase, one character
ToUpper(ch) ==
  IF CharCode(ch) >= 97 /\ CharCode(ch) <= 122 THEN FromCharCode(CharCode(ch) - 32) ELSE ch

\* str.replace('#', ''): the first '#' removed
RemoveFirstHash(cs) ==
  IF \E i \in 1..Len(cs) : cs[i] = "#"
  THEN LET i == CHOOSE i \in 1..Len(cs) : cs[i] = "#" /\ \A j \in 1..(i - 1) : cs[j] # "#"
       IN SubSeq(cs, 1, i - 1) \o SubSeq(cs, i + 1, Len(cs))
  ELSE cs

\* normalizeColor without the final toUpperCase
normalizeColor_KeepCase(color) ==
  IF ~Truthy(color) THEN [threw |-> FALSE, argb |-> <<"F", "F", "0", "0", "0", "0", "0", "0">>]
  ELSE IF color.k # "chars" THEN [threw |-> TRUE, argb |-> <<>>]
  ELSE [threw |-> FALSE,
        argb |-> IF Len(RemoveFirstHash(color.cs)) = 6
                 THEN <<"F", "F">> \o RemoveFirstHash(color.cs)
                 ELSE RemoveFirstHash(color.cs)]

\* ExcelService.normalizeColor(color): [threw |-> TRUE] when color.replace is
\* not a function (color is truthy and no string), else the ARGB characters
normalizeColor(color) ==
  IF ~Truthy(color) THEN [threw |-> FALSE, argb |-> <<"F", "F", "0", "0", "0", "0", "0", "0">>]
  ELSE IF color.k # "chars" THEN [threw |-> TRUE, argb |-> <<>>]
  ELSE LET stripped == RemoveFirstHash(color.cs)
           withAlpha == IF Len(stripped) = 6 THEN <<"F", "F">> \o stripped ELSE stripped
       IN [threw |-> FALSE, argb |-> [i \in 1..Len(withAlpha) |-> ToUpper(withAlpha[i])]]

\* a cell no style or value was given to
NullCell ==
  [value |-> Absent, font |-> Absent, fill |-> Absent, alignment |-> Absent,
   border |-> Absent, numFmt |-> Absent]

\* applyCellStyle, the font block: [threw, cell]
ApplyFont(cell, style) ==
  IF ~Truthy(Prop(style, "font")) THEN [threw |-> FALSE, cell |-> cell]
  ELSE LET font == Prop(style, "font")
           nc == normalizeColor(Prop(font, "color"))
       IN IF Truthy(Prop(font, "color")) /\ nc.threw THEN [threw |-> TRUE, cell |-> cell]
          ELSE [threw |-> FALSE,
                cell |-> [cell EXCEPT !.font =
                  [k |-> "obj",
                   name |-> OrElse(Prop(font, "name"), Str("Calibri")),
                   size |-> OrElse(Prop(font, "size"), Num(11)),
                   bold |-> OrElse(Prop(font, "bold"), Bool(FALSE)),
                   italic |-> OrElse(Prop(font, "italic"), Bool(FALSE)),
                   underline |-> OrElse(Prop(font, "underline"), Bool(FALSE)),
                   color |-> IF Truthy(Prop(font, "color"))
                             THEN [k |-> "obj", argb |-> Chars(nc.argb)]
                             ELSE Absent]]]

\* applyCellStyle, the fill block: [threw, cell]
ApplyFill(cell, style) ==
  IF ~(Truthy(Prop(style, "fill")) \/ Truthy(Prop(style, "backgroundColor")))
  THEN [threw |-> FALSE, cell |-> cell]
  ELSE LET bgColor == OrElse(Prop(style, "backgroundColor"), Prop(Prop(style, "fill"), "fgColor"))
           nc == normalizeColor(bgColor)
       IN IF nc.threw THEN [threw |-> TRUE, cell |-> cell]
          ELSE [threw |-> FALSE,
                cell |-> [cell EXCEPT !.fill =
                  [k |-> "obj", type |-> Str("pattern"), pattern |-> Str("solid"),
                   fgColor |-> [k |-> "obj", argb |-> Chars(nc.argb)]]]]

\* applyCellStyle, the alignment block
ApplyAlignment(cell, style) ==
  IF ~Truthy(Prop(style, "alignment")) THEN cell
  ELSE LET al == Prop(style, "alignment")
       IN [cell EXCEPT !.alignment =
            [k |-> "obj",
             horizontal |-> OrElse(Prop(al, "horizontal"), Str("left")),
             vertical |-> OrElse(Prop(al, "vertical"), Str("top")),
             wrapText |-> OrElse(Prop(al, "wrapText"), Bool(FALSE)),
             indent |-> OrElse(Prop(al, "indent"), Num(0))]]

\* the border block setting the four thin edges without a border sub-object
ApplyBorder_Always(cell, style) ==
  [cell EXCEPT !.border =
    [k |-> "obj",
     top |-> OrElse(Prop(Prop(style, "border"), "top"), [k |-> "obj", style |-> Str("thin")]),
     left |-> OrElse(Prop(Prop(style, "border"), "left"), [k |-> "obj", style |-> Str("thin")]),
     bottom |-> OrElse(Prop(Prop(style, "border"), "bottom"), [k |-> "obj", style |-> Str("thin")]),
     right |-> OrElse(Prop(Prop(style, "border"), "right"), [k |-> "obj", style |-> Str("thin")])]]

\* applyCellStyle, the border block
ApplyBorder(cell, style) ==
  IF ~Truthy(Prop(style, "border")) THEN cell
  ELSE LET bd == Prop(style, "border")
           thin == [k |-> "obj", style |-> Str("thin")]
       IN [cell EXCEPT !.border =
            [k |-> "obj",
             top |-> OrElse(Prop(bd, "top"), thin),
             left |-> OrElse(Prop(bd, "left"), thin),
             bottom |-> OrElse(Prop(bd, "bottom"), thin),
             right |-> OrElse(Prop(bd, "right"), thin)]]

\* applyCellStyle, the number-format block
ApplyNumFmt(cell, style) ==
  IF ~Truthy(Prop(style, "numFmt")) THEN cell
  ELSE [cell EXCEPT !.numFmt = Prop(style, "numFmt")]

\* applyCellStyle after the fill block, whose outcome is g
StyleAfterFill(g, style) ==
  IF g.threw THEN g.cell
  ELSE ApplyNumFmt(ApplyBorder(ApplyAlignment(g.cell, style), style), style)

\* applyCellStyle after the font block, whose outcome is f
StyleAfterFont(f, style) ==
  IF f.threw THEN f.cell ELSE StyleAfterFill(ApplyFill(f.cell, style), style)

\* ExcelService.applyCellStyle(cell, style): the blocks run in order inside one
\* try; an exception leaves the blocks after it undone and is only logged
applyCellStyle(cell, style) == StyleAfterFont(ApplyFont(cell, style), style)

\* dataType.toLowerCase() for the tags tried
LowerTag(tag) ==
  CASE tag = "Number" -> "number"
    [] tag = "CURRENCY" -> "currency"
    [] tag = "Text" -> "text"
    [] OTHER -> tag

\* ExcelService.applyCellDataType(cell, dataType, format)
applyCellDataType(cell, dataType, format) ==
  LET tag == LowerTag(dataType.s)
  IN CASE tag = "number" -> [cell EXCEPT !.numFmt = OrElse(format, Str("0.00"))]
       [] tag = "currency" -> [cell EXCEPT !.numFmt = OrElse(format, Str("$#,##0.00"))]
       [] tag = "percentage" -> [cell EXCEPT !.numFmt = OrElse(format, Str("0.00%"))]
       [] tag = "date" -> [cell EXCEPT !.numFmt = OrElse(format, Str("mm/dd/yyyy"))]
       [] tag = "datetime" -> [cell EXCEPT !.numFmt = OrElse(format, Str("mm/dd/yyyy hh:mm:ss"))]
       [] tag = "time" -> [cell EXCEPT !.numFmt = OrElse(format, Str("hh:mm:ss"))]
       [] tag = "text" -> [cell EXCEPT !.numFmt = Str("@")]
       [] OTHER -> cell

-----------------------------------------------------------------------------
(* Worksheets *)

\* the decoding loop of the spreadsheet library behind worksheet.getCell:
\* uppercase letters before any digit make the column, digits make the row,
\* and the scan stops at the first other character once both are known
RECURSIVE DecodeFrom(_, _, _)
DecodeFrom(s, i, st) ==
  IF i > Len(s) THEN st
  ELSE IF ~st.hasRow /\ IsUpper(s[i])
       THEN DecodeFrom(s, i + 1, [st EXCEPT !.hasCol = TRUE,
                                            !.col = (st.col * 26) + CharCode(s[i]) - 64])
  ELSE IF IsDigit(s[i])
       THEN DecodeFrom(s, i + 1, [st EXCEPT !.hasRow = TRUE,
                                            !.row = (st.row * 10) + CharCode(s[i]) - 48])
  ELSE IF st.hasRow /\ st.hasCol /\ s[i] # "$" THEN st
  ELSE DecodeFrom(s, i + 1, st)

DecodeAddress(s) == DecodeFrom(s, 1, [hasCol |-> FALSE, col |-> 0, hasRow |-> FALSE, row |-> 0])

\* a new worksheet: no cell, no table
NewWorksheet(name) ==
  [name |-> name, cells |-> <<>>, tables |-> <<>>, widths |-> <<>>, views |-> Absent,
   pageSetup |-> Absent]

\* the cell of ws at position pos = <<row, column>>
CellAt(ws, pos) == IF pos \in DOMAIN ws.cells THEN ws.cells[pos] ELSE NullCell

\* ws with the cell at pos replaced by cell
PutCell(ws, pos, cell) ==
  [ws EXCEPT !.cells = [q \in (DOMAIN ws.cells) \cup {pos} |->
                          IF q = pos THEN cell ELSE ws.cells[q]]]

\* worksheet.getCell(address): the position of the cell, created empty when the
\* sheet has none there; it throws for an address without a column letter. An
\* address without a row number names no cell of the grid.
CellOf(ws, d) ==
  IF ~d.hasCol THEN [threw |-> TRUE, pos |-> <<d.row, d.col>>, ws |-> ws]
  ELSE IF ~d.hasRow THEN [threw |-> FALSE, pos |-> <<d.row, d.col>>, ws |-> ws]
  ELSE [threw |-> FALSE, pos |-> <<d.row, d.col>>,
        ws |-> PutCell(ws, <<d.row, d.col>>, CellAt(ws, <<d.row, d.col>>))]

GetCell(ws, s) == CellOf(ws, DecodeAddress(s))

\* if (style) this.applyCellStyle(cell, style)
Styled(cell, style) == IF Truthy(style) THEN applyCellStyle(cell, style) ELSE cell

\* WriteAt with a failure of the font or fill block ending the write
WriteAt_StyleAborts(acc, g, v, style) ==
  IF g.threw THEN [acc EXCEPT !.threw = TRUE]
  ELSE IF Truthy(style) /\ (ApplyFont(NullCell, style).threw \/ ApplyFill(NullCell, style).threw)
       THEN [acc EXCEPT !.threw = TRUE]
       ELSE [threw |-> FALSE,
             ws |-> PutCell(g.ws, g.pos, Styled([CellAt(g.ws, g.pos) EXCEPT !.value = v], style)),
             writes |-> Append(acc.writes, [pos |-> g.pos, value |-> v])]

\* cell.value = v and the styling, on the cell g that getCell returned
WriteAt(acc, g, v, style) ==
  IF g.threw THEN [acc EXCEPT !.threw = TRUE]
  ELSE [threw |-> FALSE,
        ws |-> PutCell(g.ws, g.pos, Styled([CellAt(g.ws, g.pos) EXCEPT !.value = v], style)),
        writes |-> Append(acc.writes, [pos |-> g.pos, value |-> v])]

\* cell.value = v, then applyCellStyle(cell, style) when a style is given, on
\* the cell at address s; the assignment is recorded in writes
WriteStyled(acc, s, v, style) ==
  IF acc.threw THEN acc ELSE WriteAt(acc, GetCell(acc.ws, s), v, style)

-----------------------------------------------------------------------------
(* Cell writer *)

\* the value processCell gives the cell: the formula with its result, else
\* the literal value
CellValue(cellDef) ==
  IF Truthy(Prop(cellDef, "formula"))
  THEN [k |-> "obj", formula |-> cellDef.formula, result |-> Prop(cellDef, "value")]
  ELSE Prop(cellDef, "value")

\* if (cellDef.dataType) this.applyCellDataType(cell, cellDef.dataType, cellDef.format)
Typed(cell, cellDef) ==
  IF Truthy(Prop(cellDef, "dataType"))
  THEN applyCellDataType(cell, cellDef.dataType, Prop(cellDef, "format"))
  ELSE cell

\* processCell on the cell g that getCell returned
CellWrite(g, ws, cellDef) ==
  IF g.threw THEN [threw |-> TRUE, ws |-> ws]
  ELSE [threw |-> FALSE,
        ws |-> PutCell(g.ws, g.pos,
                       Typed(Styled([CellAt(g.ws, g.pos) EXCEPT !.value = CellValue(cellDef)],
                                    Prop(cellDef, "style")),
                             cellDef))]

\* ExcelService.processCell(worksheet, cellDef): [threw, ws]
processCell(ws, cellDef) == CellWrite(GetCell(ws, cellDef.cell.cs), ws, cellDef)

-----------------------------------------------------------------------------
(* Range writer *)

\* the inner forEach of processRange: the elements of one row, left to right
RECURSIVE RangeRow(_, _, _, _, _, _)
RangeRow(acc, startColLetters, r, items, colIndex, style) ==
  IF colIndex >= Len(items) THEN acc
  ELSE RangeRow(WriteStyled(acc, getCellAddress(startColLetters, r, colIndex),
                            items[colIndex + 1], style),
                startColLetters, r, items, colIndex + 1, style)

\* the outer forEach of processRange: the rows of data, top to bottom; a row
\* that is no array is skipped
RECURSIVE RangeRows(_, _, _, _, _, _)
RangeRows(acc, startColLetters, startRow, rows, rowIndex, style) ==
  IF rowIndex >= Len(rows) THEN acc
  ELSE RangeRows(IF IsArray(rows[rowIndex + 1])
                 THEN RangeRow(acc, startColLetters, startRow + rowIndex,
                               rows[rowIndex + 1].items, 0, style)
                 ELSE acc,
                 startColLetters, startRow, rows, rowIndex + 1, style)

\* processRange after its first statement, const range = worksheet.getCell(
\* rangeDef.range), which returned g; digits and letters are what the two
\* matches on the start cell give
RangeFrom(g, rangeDef, digits, letters) ==
  IF g.threw THEN [threw |-> TRUE, ws |-> g.ws, writes |-> <<>>]
  ELSE IF ~(Truthy(Prop(rangeDef, "data")) /\ IsArray(Prop(rangeDef, "data")))
       THEN [threw |-> FALSE, ws |-> g.ws, writes |-> <<>>]
  ELSE IF digits = <<>> \/ letters = <<>> THEN [threw |-> TRUE, ws |-> g.ws, writes |-> <<>>]
  ELSE RangeRows([threw |-> FALSE, ws |-> g.ws, writes |-> <<>>], letters, ParseInt(digits),
                 rangeDef.data.items, 0, Prop(rangeDef, "style"))

\* ExcelService.processRange(worksheet, rangeDef): [threw, ws, writes]
processRange(ws, rangeDef) ==
  RangeFrom(GetCell(ws, rangeDef.range.cs), rangeDef,
            MatchDigits(SplitColonFirst(rangeDef.range.cs)),
            MatchUpper(SplitColonFirst(rangeDef.range.cs)))

-----------------------------------------------------------------------------
(* Table writer *)

\* A row mapping is [k |-> "map", entries |-> the <<key, value>> pairs in
\* insertion order]
Map(entries) == [k |-> "map", entries |-> entries]

\* Object.keys(o)
ObjectKeys(o) == [i \in 1..Len(o.entries) |-> o.entries[i][1]]

\* o[key]: undefined when o has no such key
Lookup(o, key) ==
  IF \E i \in 1..Len(o.entries) : o.entries[i][1] = key
  THEN o.entries[CHOOSE i \in 1..Len(o.entries) : o.entries[i][1] = key][2]
  ELSE Absent

\* the style processTable gives a header cell when the table has no header
\* sub-style
DefaultHeaderStyle ==
  [k |-> "obj",
   font |-> [k |-> "obj", bold |-> Bool(TRUE),
             color |-> [k |-> "obj", argb |-> Chars(<<"F", "F", "F", "F", "F", "F", "F", "F">>)]],
   fill |-> [k |-> "obj", type |-> Str("pattern"), pattern |-> Str("solid"),
             fgColor |-> [k |-> "obj", argb |-> Chars(<<"F", "F", "3", "6", "6", "0", "9", "2">>)]],
   alignment |-> [k |-> "obj", horizontal |-> Str("center"), vertical |-> Str("middle")]]

\* the style of the header cells: tableDef.style?.header, else the default
HeaderStyle(tableDef) ==
  IF Truthy(Prop(Prop(tableDef, "style"), "header"))
  THEN tableDef.style.header
  ELSE DefaultHeaderStyle

\* the header forEach of processTable
RECURSIVE TableHeaders(_, _, _, _, _, _)
TableHeaders(acc, letters, startRow, headers, index, style) ==
  IF index >= Len(headers) THEN acc
  ELSE TableHeaders(WriteStyled(acc, getCellAddress(letters, startRow, index),
                                Str(headers[index + 1]), style),
                    letters, startRow, headers, index + 1, style)

\* the alternate-row sub-style replacing the style of the cell just written
AlternateStyled_Replaces(w, altStyle, rowIndex) ==
  IF w.threw \/ ~(rowIndex % 2 = 1 /\ Truthy(altStyle)) THEN w
  ELSE [w EXCEPT !.ws = PutCell(w.ws, w.writes[Len(w.writes)].pos,
                                applyCellStyle([NullCell EXCEPT !.value = w.writes[Len(w.writes)].value],
                                               altStyle))]

\* the alternate-row sub-style laid over the cell just written (the last of
\* w.writes)
AlternateStyled(w, altStyle, rowIndex) ==
  IF w.threw \/ ~(rowIndex % 2 = 1 /\ Truthy(altStyle)) THEN w
  ELSE [w EXCEPT !.ws = PutCell(w.ws, w.writes[Len(w.writes)].pos,
                                applyCellStyle(CellAt(w.ws, w.writes[Len(w.writes)].pos), altStyle))]

\* one body cell: the value, the body sub-style, then the alternate sub-style
TableBodyCell(acc, s, v, tableDef, rowIndex) ==
  AlternateStyled(WriteStyled(acc, s, v, Prop(Prop(tableDef, "style"), "rows")),
                  Prop(Prop(tableDef, "style"), "alternateRows"), rowIndex)

\* the inner forEach of the data rows: one cell per header
RECURSIVE TableBodyRow(_, _, _, _, _, _, _)
TableBodyRow(acc, letters, startRow, headers, tableDef, rowIndex, colIndex) ==
  IF colIndex >= Len(headers) THEN acc
  ELSE TableBodyRow(TableBodyCell(acc, getCellAddress(letters, startRow + rowIndex + 1, colIndex),
                                  Lookup(tableDef.data.items[rowIndex + 1], headers[colIndex + 1]),
                                  tableDef, rowIndex),
                    letters, startRow, headers, tableDef, rowIndex, colIndex + 1)

\* the outer forEach of the data rows
RECURSIVE TableBody(_, _, _, _, _, _)
TableBody(acc, letters, startRow, headers, tableDef, rowIndex) ==
  IF rowIndex >= Len(tableDef.data.items) THEN acc
  ELSE TableBody(TableBodyRow(acc, letters, startRow, headers, tableDef, rowIndex, 0),
                 letters, startRow, headers, tableDef, rowIndex + 1)

\* worksheet.addTable: the named table is registered with the range the writer
\* computed, one column descriptor per header and the rows' values (how the
\* library renders a registered table into cells is not modelled)
AddTable(acc, tableDef, startCell, letters, startRow, headers) ==
  LET endRow == startRow + Len(tableDef.data.items)
      endCol == MatchUpper(getCellAddress(letters, 1, Len(headers) - 1))
  IN IF acc.threw \/ endCol = <<>> THEN [acc EXCEPT !.threw = TRUE]
     ELSE [acc EXCEPT !.ws.tables =
             Append(@, [name |-> tableDef.name,
                        ref |-> startCell \o <<":">> \o endCol \o DecimalString(endRow),
                        headerRow |-> TRUE, columns |-> headers,
                        rows |-> [i \in 1..Len(tableDef.data.items) |->
                                    [j \in 1..Len(headers) |->
                                       Lookup(tableDef.data.items[i], headers[j])]]])]

\* const startCell = tableDef.range ? tableDef.range.split(':')[0] : 'A1'
TableStartCell(tableDef) ==
  IF Truthy(Prop(tableDef, "range")) THEN SplitColonFirst(tableDef.range.cs) ELSE <<"A", "1">>

\* processTable from the headers on: the header row, the data rows, then the
\* registration of a named table
TableFrom(acc0, tableDef, startCell, letters, startRow, headers) ==
  IF Truthy(Prop(tableDef, "name"))
  THEN AddTable(TableBody(TableHeaders(acc0, letters, startRow, headers, 0, HeaderStyle(tableDef)),
                          letters, startRow, headers, tableDef, 0),
                tableDef, startCell, letters, startRow, headers)
  ELSE TableBody(TableHeaders(acc0, letters, startRow, headers, 0, HeaderStyle(tableDef)),
                 letters, startRow, headers, tableDef, 0)

\* processTable once the data is known to be a non-empty array
TableAt(ws, tableDef, startCell, digits, letters) ==
  IF digits = <<>> \/ letters = <<>> THEN [threw |-> TRUE, ws |-> ws, writes |-> <<>>]
  ELSE TableFrom([threw |-> FALSE, ws |-> ws, writes |-> <<>>], tableDef, startCell, letters,
                 ParseInt(digits), ObjectKeys(tableDef.data.items[1]))

\* ExcelService.processTable(worksheet, tableDef): [threw, ws, writes]
processTable(ws, tableDef) ==
  IF \/ ~Truthy(Prop(tableDef, "data"))
     \/ ~IsArray(Prop(tableDef, "data"))
     \/ Len(tableDef.data.items) = 0
  THEN [threw |-> TRUE, ws |-> ws, writes |-> <<>>]
  ELSE TableAt(ws, tableDef, TableStartCell(tableDef), MatchDigits(TableStartCell(tableDef)),
               MatchUpper(TableStartCell(tableDef)))

-----------------------------------------------------------------------------
(* The writers on one worksheet: inputs *)

\* all sequences over S of length at most n
SeqsUpTo(S, n) == UNION {[1..m -> S] : m \in 0..n}

\* the range strings tried: plain, with several end components, at the end of
\* the alphabet, past it, and one whose start has no row number
RangeStrings ==
  { <<"A", "3">>, <<"A", "3", ":", "B", "4">>, <<"A", "3", ":", "Z", "9">>, <<"A", "3", ":">>,
    <<"B", "1", "0", ":", "C", "1", "2">>, <<"Z", "1", ":", "A", "A", "2">>,
    <<"A", "A", "3", ":", "A", "B", "4">>, <<"A", ":", "B">> }

\* the rows of range data: arrays of values, and one row that is no array
RangeDataRows == {Arr(items) : items \in SeqsUpTo({Str("Product"), Num(5)}, MaxRangeCols)} \cup {Str("stray")}

\* a StyleSpec with a string colour, one with a border only
FontStyle ==
  [k |-> "obj", font |-> [k |-> "obj", bold |-> Bool(TRUE),
                          color |-> Chars(<<"#", "a", "b", "c", "1", "2", "3">>)]]
BorderStyle == [k |-> "obj", border |-> [k |-> "obj", top |-> [k |-> "obj", style |-> Str("thick")]]]
FillStyle == [k |-> "obj", fill |-> [k |-> "obj", fgColor |-> Chars(<<"#", "F", "2", "F", "2", "F", "2">>)]]
AlignStyle == [k |-> "obj", alignment |-> [k |-> "obj", horizontal |-> Str("center")]]

RangeDefs ==
  { [k |-> "obj", range |-> Chars(r), data |-> Arr(d), style |-> st] :
      r \in RangeStrings, d \in SeqsUpTo(RangeDataRows, MaxDataRows), st \in {Absent, BorderStyle} }

\* the row mappings of table data: a full row, a row lacking a key, a row with
\* an extra key in another order, and an empty mapping
TableRowMaps ==
  { Map(<< <<"Product", Str("Widget")>>, <<"Q1", Num(5)>> >>),
    Map(<< <<"Product", Str("Gadget")>> >>),
    Map(<< <<"Q1", Num(7)>>, <<"Product", Str("Gizmo")>>, <<"Extra", Str("dropped")>> >>),
    Map(<< >>) }

\* the table styles tried: none, a header sub-style, body and alternate
\* sub-styles, all three
TableStyles ==
  { Absent,
    [k |-> "obj", header |-> FontStyle],
    [k |-> "obj", rows |-> AlignStyle, alternateRows |-> FillStyle],
    [k |-> "obj", header |-> FontStyle, rows |-> AlignStyle, alternateRows |-> FillStyle] }

\* the table anchors tried: none (A1), plain, end of the alphabet, past it,
\* and one without a row number
TableRanges ==
  { Absent, Chars(<<"B", "2", ":", "C", "9">>), Chars(<<"Z", "3">>), Chars(<<"Y", "1", "0">>),
    Chars(<<"A", "A", "1", ":", "A", "C", "5">>), Chars(<<"A", "B">>) }

TableDefs ==
  { [k |-> "obj", name |-> n, range |-> r, data |-> Arr(d), style |-> st] :
      n \in {Absent, Str("SalesData")}, r \in TableRanges,
      d \in SeqsUpTo(TableRowMaps, MaxDataRows), st \in TableStyles }

WriterIdle ==
  /\ wdef = Absent /\ worksheet = NewWorksheet("") /\ wout = Absent /\ wpc = "idle"

WriterInit ==
  /\ worksheet = NewWorksheet("Sheet1")
  /\ wout = Absent
  /\ \/ wpc = "range" /\ wdef \in RangeDefs
     \/ wpc = "table" /\ wdef \in TableDefs

\* the writer returned res
Written(res) ==
  /\ worksheet' = res.ws
  /\ wout' = [threw |-> res.threw, writes |-> res.writes]

\* one call of processRange
WriteRange ==
  /\ wpc = "range"
  /\ Written(processRange(worksheet, wdef))
  /\ wpc' = "rangeDone"
  /\ UNCHANGED wdef
  /\ UNCHANGED <<addrVars, composerVars, outVars, fillVars, styleVars, serviceVars>>

\* one call of processTable
WriteTable ==
  /\ wpc = "table"
  /\ Written(processTable(worksheet, wdef))
  /\ wpc' = "tableDone"
  /\ UNCHANGED wdef
  /\ UNCHANGED <<addrVars, composerVars, outVars, fillVars, styleVars, serviceVars>>

-----------------------------------------------------------------------------
(* Sheet formatting *)

\* the length of cell.value.toString(), 10 for a cell whose value is falsy
ValueLength(v) ==
  IF ~Truthy(v) THEN 10
  ELSE CASE v.k = "str" -> Len(v.s)
         [] v.k = "chars" -> Len(v.cs)
         [] v.k = "num" -> Len(DecimalString(v.n))
         [] v.k = "bool" -> 4
         [] OTHER -> 15

\* the largest element of a non-empty set of numbers, 0 for the empty set
MaxOf(S) == IF S = {} THEN 0 ELSE CHOOSE m \in S : \A n \in S : n <= m

\* the number of rows and of columns of ws the library holds
LastRow(ws) == MaxOf({p[1] : p \in DOMAIN ws.cells})
LastCol(ws) == MaxOf({p[2] : p \in DOMAIN ws.cells})

\* the widest column width auto-width sets
MaxWidth == 50

\* the auto-width block: every column gets min(longest + 2, 50), the longest
\* taken over the cells of the column in every row of the sheet
AutoWidth(ws) ==
  [ws EXCEPT !.widths =
     [c \in 1..LastCol(ws) |->
        LET maxLength == MaxOf({ValueLength(CellAt(ws, <<r, c>>).value) : r \in 1..LastRow(ws)})
        IN IF maxLength + 2 < MaxWidth THEN maxLength + 2 ELSE MaxWidth]]

\* the freeze-panes block
FreezePanes(ws, formatting) ==
  LET rows == OrElse(Prop(formatting, "freezeRows"), Num(0))
      cols == OrElse(Prop(formatting, "freezeCols"), Num(0))
  IN IF ~(Truthy(Prop(formatting, "freezeRows")) \/ Truthy(Prop(formatting, "freezeCols"))) THEN ws
     ELSE [ws EXCEPT !.views =
             [k |-> "obj", state |-> Str("frozen"), xSplit |-> cols, ySplit |-> rows,
              topLeftCell |-> Chars(getCellAddress(<<"A">>, rows.n + 1, (cols.n + 1) - 1))]]

\* the page-setup block
PageSetup(ws, formatting) ==
  LET ps == Prop(formatting, "pageSetup")
  IN IF ~Truthy(ps) THEN ws
     ELSE [ws EXCEPT !.pageSetup =
             [k |-> "obj",
              orientation |-> OrElse(Prop(ps, "orientation"), Str("portrait")),
              paperSize |-> OrElse(Prop(ps, "paperSize"), Num(9)),
              margins |-> OrElse(Prop(ps, "margins"), Str("left 0.7 right 0.7 top 0.75 bottom 0.75 header 0.3 footer 0.3"))]]

\* ExcelService.applySheetFormatting(worksheet, formatting): the three blocks in
\* one try. worksheet.columns is null while the sheet has no cell, so auto-width
\* on such a sheet throws; the exception is logged and the later blocks are
\* left undone.
applySheetFormatting(ws, formatting) ==
  IF Truthy(Prop(formatting, "autoWidth")) /\ DOMAIN ws.cells = {} THEN ws
  ELSE PageSetup(FreezePanes(IF Truthy(Prop(formatting, "autoWidth")) THEN AutoWidth(ws) ELSE ws,
                             formatting),
                 formatting)

-----------------------------------------------------------------------------
(* Errors and the error handler *)

\* new APIError(message, statusCode): the message is a sequence of text parts
APIError(message, statusCode) ==
  [k |-> "error", name |-> "APIError", message |-> message, statusCode |-> Num(statusCode),
   code |-> Absent]

\* the text parts in which a word occurs
Mentions ==
  { <<"Excel generation failed: ", "Excel">>,
    <<"Query result Excel generation failed: ", "Excel">>, <<"Excel", "Excel">>,
    <<"Database", "Database">>, <<"Database.xlsx", "Database">>,
    <<"Database not initialized. Please check your DATABASE_URL configuration.", "Database">>,
    <<"Database query failed: ", "Database">>,
    <<"Only Excel files (.xlsx, .xls) are allowed", "Excel">> }

\* err.message.includes(word)
Includes(message, word) == \E i \in 1..Len(message) : <<message[i], word>> \in Mentions

\* errorHandler(err, req, res, next): the status and body sent
errorHandler(err) ==
  LET own ==
        IF err.name = "ValidationError" THEN [statusCode |-> Num(400), message |-> "Validation Error"]
        ELSE IF err.name = "CastError" THEN [statusCode |-> Num(400), message |-> "Invalid data format"]
        ELSE IF err.code = Str("LIMIT_FILE_SIZE") THEN [statusCode |-> Num(413), message |-> "File size too large"]
        ELSE IF err.code = Str("ENOENT") THEN [statusCode |-> Num(404), message |-> "File not found"]
        ELSE IF Includes(err.message, "Excel") THEN [statusCode |-> Num(422), message |-> "Excel processing error"]
        ELSE IF Includes(err.message, "Database") THEN [statusCode |-> Num(500), message |-> "Database error"]
        ELSE [statusCode |-> Absent, message |-> "Internal Server Error"]
      statusCode == OrElse(own.statusCode, OrElse(Prop(err, "statusCode"), Num(500)))
  IN [k |-> "error", status |-> statusCode.n, success |-> FALSE, message |-> own.message]

-----------------------------------------------------------------------------
(* Workbook composer *)

\* the template directory: the files in it and the sheets each holds
TemplateFiles == {"report.xlsx"}

TemplateSheets(filename) ==
  << PutCell(NewWorksheet("Sheet1"), <<1, 1>>, [NullCell EXCEPT !.value = Str("Title")]) >>

\* ExcelService.loadTemplate(workbook, templateName): [threw, error, workbook]
loadTemplate(wb, templateName) ==
  IF templateName.s \in TemplateFiles
  THEN [threw |-> FALSE, error |-> Absent, workbook |-> TemplateSheets(templateName.s)]
  ELSE [threw |-> TRUE, workbook |-> wb,
        error |-> APIError(<<"Template loading failed: ", "File not found: ", templateName.s>>, 404)]

\* getWorksheet giving the first sheet of the workbook whatever the name
GetWorksheet_First(wb, name) == IF Len(wb) >= 1 THEN 1 ELSE 0

\* workbook.getWorksheet(name): the index of the sheet of that name, 0 if none
GetWorksheet(wb, name) ==
  IF \E i \in 1..Len(wb) : wb[i].name = name
  THEN CHOOSE i \in 1..Len(wb) : wb[i].name = name /\ \A j \in 1..(i - 1) : wb[j].name # name
  ELSE 0

\* the order in which processSheet goes through the parts of a sheet
PhaseOrder_TablesFirst == <<"cells", "tables", "ranges", "formatting">>

PhaseOrder == <<"cells", "ranges", "tables", "formatting">>

\* the number of steps a part of the sheet definition takes: one per cell,
\* range or table, one for the formatting, none when the part is absent
PhaseSteps(sheetDef, part) ==
  LET def == Prop(sheetDef, part)
  IN IF ~Truthy(def) THEN 0
     ELSE IF part = "formatting" THEN 1
     ELSE Len(def.items)

\* the position after step <<n, item>> of PhaseOrder in sheet sheetDef: the
\* next item of the same part, else the first item of the next part that has
\* any, else <<5, 0>>: the sheet is finished
RECURSIVE NextPosition(_, _, _)
NextPosition(sheetDef, n, item) ==
  IF n > Len(PhaseOrder) THEN <<n, 0>>
  ELSE IF item < PhaseSteps(sheetDef, PhaseOrder[n]) THEN <<n, item + 1>>
  ELSE NextPosition(sheetDef, n + 1, 0)

\* createWorkbook's loop continued after an error in sheet i (the error is
\* dropped and the next sheet is processed)
AfterSheetError_Continue(i, nSheets) == IF i < nSheets THEN "sheet" ELSE "serialize"

\* where control goes when processSheet(i) throws inside createWorkbook: the
\* for loop has no handler of its own, so the catch of createWorkbook
AfterSheetError(i, nSheets) == "catch"


\* the cell definitions tried: styled, typed, with a formula, and one whose
\* address has no column letter (getCell throws on it)
StyledCell == [k |-> "obj", cell |-> Chars(<<"A", "1">>), value |-> Str("Sales Report"), style |-> FontStyle]
TypedCell == [k |-> "obj", cell |-> Chars(<<"B", "2">>), value |-> Num(1000), dataType |-> Str("currency")]
FormulaCell ==
  [k |-> "obj", cell |-> Chars(<<"C", "2">>), formula |-> Str("=SUM(D2:D10)"), dataType |-> Str("number")]
BadCell == [k |-> "obj", cell |-> Chars(<<"b", "2">>), value |-> Num(1)]

\* a range and a table that can be written, and ones that cannot: a range
\* whose start has no row number, a table without data rows
GoodRange ==
  [k |-> "obj", range |-> Chars(<<"A", "3", ":", "B", "4">>),
   data |-> Arr(<<Arr(<<Str("Product"), Str("Qty")>>), Arr(<<Str("Widget"), Num(5)>>)>>)]
BadRange == [k |-> "obj", range |-> Chars(<<"A", ":", "B">>), data |-> Arr(<<Arr(<<Num(5)>>)>>)]
GoodTable ==
  [k |-> "obj", name |-> Str("SalesData"), range |-> Chars(<<"A", "1", "0">>),
   data |-> Arr(<<Map(<< <<"Product", Str("Widget")>>, <<"Q1", Num(5)>> >>)>>)]
BadTable == [k |-> "obj", name |-> Str("Empty"), data |-> Arr(<<>>)]

SomeFormatting ==
  [k |-> "obj", autoWidth |-> Bool(TRUE), freezeRows |-> Num(1),
   pageSetup |-> [k |-> "obj", orientation |-> Str("landscape")]]

\* the sheet contents tried: <<cells, ranges, tables, formatting>>
SheetContents ==
  { <<Absent, Absent, Absent, Absent>>,
    <<Arr(<<StyledCell, TypedCell>>), Absent, Absent, Absent>>,
    <<Arr(<<TypedCell, BadCell, FormulaCell>>), Absent, Absent, Absent>>,
    <<Absent, Arr(<<BadRange>>), Absent, Absent>>,
    <<Absent, Absent, Arr(<<BadTable>>), SomeFormatting>>,
    <<Arr(<<FormulaCell>>), Arr(<<GoodRange>>), Arr(<<GoodTable>>), SomeFormatting>>,
    <<Arr(<<StyledCell>>), Arr(<<GoodRange, BadRange>>), Arr(<<GoodTable>>), SomeFormatting>>,
    <<Absent, Absent, Absent, SomeFormatting>> }

SheetDefs ==
  { [k |-> "obj", name |-> Str(n), cells |-> c[1], ranges |-> c[2], tables |-> c[3],
     formatting |-> c[4]] : n \in {"Sheet1", "Data"}, c \in SheetContents }

\* the request documents: no template, one that is in the template directory,
\* one that is not
Payloads ==
  { [k |-> "obj", template |-> t, sheets |-> Arr(sh)] :
      t \in {Absent, Str("report.xlsx"), Str("missing.xlsx")},
      sh \in SeqsUpTo(SheetDefs, MaxSheets) }

ComposerInit ==
  /\ payload \in Payloads
  /\ workbook = <<>> /\ cpc = "call" /\ sheetIdx = 0 /\ phase = 0 /\ itemIdx = 0
  /\ log = <<>>

\* payload.sheets || []
Sheets == OrElse(Prop(payload, "sheets"), Arr(<<>>)).items

\* one entry of the history
Entry(step, ok) == [step |-> step, sheet |-> sheetIdx, item |-> itemIdx, ok |-> ok]

\* the for loop of createWorkbook moves on: to sheet i, or past the last sheet
\* to the serialization
GoToSheet(i) ==
  /\ cpc' = IF i <= Len(Sheets) THEN "sheet" ELSE "serialize"
  /\ sheetIdx' = i
  /\ phase' = 0
  /\ itemIdx' = 0

\* processSheet moves on after step <<phase, itemIdx>> of the current sheet
Advance(n, item) ==
  LET pos == NextPosition(Sheets[sheetIdx], n, item)
  IN IF pos[1] > Len(PhaseOrder) THEN GoToSheet(sheetIdx + 1)
     ELSE cpc' = "step" /\ phase' = pos[1] /\ itemIdx' = pos[2] /\ UNCHANGED sheetIdx

\* a writer of the current sheet threw: the error, wrapped by processSheet
Fail(parts) ==
  LET target == AfterSheetError(sheetIdx, Len(Sheets))
  IN IF target = "catch"
     THEN /\ cpc' = "catch"
          /\ thrown' = APIError(<<"Sheet processing failed: ">> \o parts, 422)
          /\ UNCHANGED <<sheetIdx, phase, itemIdx>>
     ELSE GoToSheet(sheetIdx + 1) /\ UNCHANGED thrown

\* the index in workbook of the worksheet processSheet works on
CurrentSheet == GetWorksheet(workbook, Sheets[sheetIdx].name.s)

\* createWorkbook up to the template: a new workbook
CreateWorkbook ==
  /\ cpc = "call"
  /\ workbook' = <<>>
  /\ log' = Append(log, Entry("create", TRUE))
  /\ IF Truthy(Prop(payload, "template"))
     THEN cpc' = "loadTemplate" /\ UNCHANGED <<sheetIdx, phase, itemIdx>>
     ELSE GoToSheet(1)
  /\ UNCHANGED <<payload, outVars, addrVars, writerVars, fillVars, styleVars, serviceVars>>

\* loadTemplate returned res
Loaded(res) ==
  /\ workbook' = res.workbook
  /\ log' = Append(log, Entry("template", ~res.threw))
  /\ IF res.threw
     THEN cpc' = "catch" /\ thrown' = res.error /\ UNCHANGED <<sheetIdx, phase, itemIdx>>
     ELSE GoToSheet(1) /\ UNCHANGED thrown

\* a writer of the current sheet returned res; parts is its message if it threw
Stepped(res, parts) ==
  /\ workbook' = [workbook EXCEPT ![CurrentSheet] = res.ws]
  /\ log' = Append(log, Entry(PhaseOrder[phase], ~res.threw))
  /\ IF res.threw THEN Fail(parts) ELSE Advance(phase, itemIdx) /\ UNCHANGED thrown

\* await this.loadTemplate(workbook, payload.template)
LoadTemplate ==
  /\ cpc = "loadTemplate"
  /\ Loaded(loadTemplate(workbook, payload.template))
  /\ UNCHANGED <<payload, response, addrVars, writerVars, fillVars, styleVars, serviceVars>>

\* processSheet, its first statement: the worksheet is fetched or created
ProcessSheet ==
  /\ cpc = "sheet"
  /\ workbook' = IF CurrentSheet = 0
                 THEN Append(workbook, NewWorksheet(Sheets[sheetIdx].name.s))
                 ELSE workbook
  /\ log' = Append(log, Entry("sheet", TRUE))
  /\ Advance(1, 0)
  /\ UNCHANGED <<payload, outVars, addrVars, writerVars, fillVars, styleVars, serviceVars>>

\* await this.processCell(worksheet, cellDef)
ProcessCell ==
  /\ cpc = "step" /\ PhaseOrder[phase] = "cells"
  /\ Stepped(processCell(workbook[CurrentSheet], Sheets[sheetIdx].cells.items[itemIdx]),
             <<"Cell processing failed for ", "cellDef.cell", ": ", "A Cell needs a Row">>)
  /\ UNCHANGED <<payload, response, addrVars, writerVars, fillVars, styleVars, serviceVars>>

\* await this.processRange(worksheet, rangeDef)
ProcessRange ==
  /\ cpc = "step" /\ PhaseOrder[phase] = "ranges"
  /\ Stepped(processRange(workbook[CurrentSheet], Sheets[sheetIdx].ranges.items[itemIdx]),
             <<"Range processing failed: ", "Cannot read properties of null">>)
  /\ UNCHANGED <<payload, response, addrVars, writerVars, fillVars, styleVars, serviceVars>>

\* await this.processTable(worksheet, tableDef)
ProcessTable ==
  /\ cpc = "step" /\ PhaseOrder[phase] = "tables"
  /\ Stepped(processTable(workbook[CurrentSheet], Sheets[sheetIdx].tables.items[itemIdx]),
             <<"Table processing failed: ", "Table data is required and must be a non-empty array">>)
  /\ UNCHANGED <<payload, response, addrVars, writerVars, fillVars, styleVars, serviceVars>>

\* await this.applySheetFormatting(worksheet, sheetDef.formatting)
ApplySheetFormatting ==
  /\ cpc = "step" /\ PhaseOrder[phase] = "formatting"
  /\ workbook' = [workbook EXCEPT ![CurrentSheet] =
                    applySheetFormatting(@, Sheets[sheetIdx].formatting)]
  /\ log' = Append(log, Entry("formatting", TRUE))
  /\ Advance(phase, itemIdx)
  /\ UNCHANGED <<payload, outVars, addrVars, writerVars, fillVars, styleVars, serviceVars>>

\* const buffer = await workbook.xlsx.writeBuffer(); return buffer
WriteBuffer ==
  /\ cpc = "serialize"
  /\ response' = [k |-> "buffer", status |-> 200, success |-> TRUE, workbook |-> workbook]
  /\ log' = Append(log, Entry("serialize", TRUE))
  /\ cpc' = "done"
  /\ UNCHANGED <<payload, workbook, sheetIdx, phase, itemIdx, thrown, addrVars, writerVars, fillVars, styleVars, serviceVars>>

\* the catch of createWorkbook: whatever was thrown is thrown again as a 422
CatchCreateWorkbook ==
  /\ cpc = "catch"
  /\ thrown' = APIError(<<"Excel generation failed: ">> \o thrown.message, 422)
  /\ cpc' = "errorHandler"
  /\ UNCHANGED <<payload, workbook, sheetIdx, phase, itemIdx, log, response, addrVars, writerVars, fillVars, styleVars, serviceVars>>

\* the controller lets the error through to the error-handling middleware
ErrorHandler ==
  /\ cpc = "errorHandler"
  /\ response' = errorHandler(thrown)
  /\ cpc' = "done"
  /\ UNCHANGED <<payload, workbook, sheetIdx, phase, itemIdx, log, thrown, addrVars, writerVars, fillVars, styleVars, serviceVars>>

ComposerNext ==
  \/ CreateWorkbook \/ LoadTemplate \/ ProcessSheet
  \/ ProcessCell \/ ProcessRange \/ ProcessTable \/ ApplySheetFormatting
  \/ WriteBuffer \/ CatchCreateWorkbook \/ ErrorHandler

-----------------------------------------------------------------------------
(* Template filler *)

\* \w of a regular expression
IsWord(ch) ==
  IsUpper(ch) \/ IsDigit(ch) \/ ch = "_" \/ (CharCode(ch) >= 97 /\ CharCode(ch) <= 122)

\* the length of the longest run of \w characters of s that starts at index i
RECURSIVE WordRun(_, _)
WordRun(s, i) == IF i > Len(s) \/ ~IsWord(s[i]) THEN 0 ELSE 1 + WordRun(s, i + 1)

\* the characters of t stand in s from index i on
HasAt(s, i, t) == i + Len(t) - 1 <= Len(s) /\ SubSeq(s, i, i + Len(t) - 1) = t

\* /\{\{(\w+)\}\}/ tried at index i of s: the length of the key, 0 if it does
\* not match there
PlaceholderAt(s, i) ==
  IF /\ HasAt(s, i, <<"{", "{">>)
     /\ WordRun(s, i + 2) > 0
     /\ HasAt(s, i + 2 + WordRun(s, i + 2), <<"}", "}">>)
  THEN WordRun(s, i + 2)
  ELSE 0

\* /\{\{#(\w+)\}\}/ tried at index i of s: the length of the key, 0 if it does
\* not match there
MarkerAt(s, i) ==
  IF /\ HasAt(s, i, <<"{", "{", "#">>)
     /\ WordRun(s, i + 3) > 0
     /\ HasAt(s, i + 3 + WordRun(s, i + 3), <<"}", "}">>)
  THEN WordRun(s, i + 3)
  ELSE 0

\* the text a value becomes when String.prototype.replace is handed it
RECURSIVE StringOf(_)
RECURSIVE JoinStrings(_, _)
StringOf(v) ==
  CASE v.k = "chars" -> v.cs
    [] v.k = "num" -> DecimalString(v.n)
    [] v.k = "bool" -> IF v.b THEN <<"t", "r", "u", "e">> ELSE <<"f", "a", "l", "s", "e">>
    [] v.k = "arr" -> JoinStrings(v.items, 1)
    [] OTHER -> <<"[", "o", "b", "j", "e", "c", "t", " ", "O", "b", "j", "e", "c", "t", "]">>

\* Array.prototype.toString: the elements' texts joined by commas
JoinStrings(items, i) ==
  IF i > Len(items) THEN <<>>
  ELSE StringOf(items[i]) \o (IF i < Len(items) THEN <<",">> ELSE <<>>)
       \o JoinStrings(items, i + 1)

\* the callback of replace for the match of length n + 4 at index i:
\* o[key] !== undefined ? o[key] : match
Replacement(s, i, n, o) ==
  IF Lookup(o, SubSeq(s, i + 2, i + 1 + n)).k # "absent"
  THEN StringOf(Lookup(o, SubSeq(s, i + 2, i + 1 + n)))
  ELSE SubSeq(s, i, i + n + 3)

\* s.replace(/\{\{(\w+)\}\}/g, (match, key) => o[key] !== undefined ? o[key] : match),
\* from index i on
RECURSIVE ReplacePlaceholders(_, _, _)
ReplacePlaceholders(s, i, o) ==
  IF i > Len(s) THEN <<>>
  ELSE IF PlaceholderAt(s, i) = 0 THEN <<s[i]>> \o ReplacePlaceholders(s, i + 1, o)
  ELSE Replacement(s, i, PlaceholderAt(s, i), o)
       \o ReplacePlaceholders(s, i + PlaceholderAt(s, i) + 4, o)

\* arrayRegex.exec(s): the index of the first array marker of s, 0 if none
FirstMarker(s) ==
  IF \E i \in 1..Len(s) : MarkerAt(s, i) > 0
  THEN CHOOSE i \in 1..Len(s) : MarkerAt(s, i) > 0 /\ \A j \in 1..(i - 1) : MarkerAt(s, j) = 0
  ELSE 0

\* arrayMatch[1]: the key of the marker at index i
MarkerKey(s, i) == SubSeq(s, i + 3, i + 2 + MarkerAt(s, i))

\* s without the marker at index i
WithoutMarkerAt(s, i) ==
  IF i = 0 THEN s ELSE SubSeq(s, 1, i - 1) \o SubSeq(s, i + MarkerAt(s, i) + 5, Len(s))

\* s.replace(/\{\{#\w+\}\}/, ''): the first marker removed
RemoveFirstMarker(s) == WithoutMarkerAt(s, FirstMarker(s))

\* cell.value && typeof cell.value === 'string'
IsStringCell(v) == Truthy(v) /\ v.k = "chars"

\* the callback of currentRow.eachCell for one cell and one array element
FillItemCell(v, item) ==
  IF IsStringCell(v) THEN Chars(ReplacePlaceholders(RemoveFirstMarker(v.cs), 1, item)) ELSE v

\* currentRow.eachCell(...) for one array element: null cells are passed over
FillItemRow(cells, item) == [c \in 1..Len(cells) |-> FillItemCell(cells[c], item)]

\* insertRow adding the empty row after the last row, whatever pos is
InsertRow_AtEnd(sh, pos) == Append(sh, <<>>)

\* worksheet.insertRow(pos, []): the rows from pos on move down by one and an
\* empty row takes their place
InsertRow(sh, pos) ==
  IF pos > Len(sh) THEN Append(sh, <<>>)
  ELSE SubSeq(sh, 1, pos - 1) \o << <<>> >> \o SubSeq(sh, pos, Len(sh))

\* worksheet.getRow(r).eachCell(...) for the array element item
FilledAt(sh, r, item) == [sh EXCEPT ![r] = FillItemRow(@, item)]

\* arrayData.forEach((item, index) => ...), from index on
RECURSIVE ExpandRows(_, _, _, _)
ExpandRows(sh, startRow, items, index) ==
  IF index >= Len(items) THEN sh
  ELSE ExpandRows(FilledAt(IF index > 0 THEN InsertRow(sh, startRow + index) ELSE sh,
                           startRow + index, items[index + 1]),
                  startRow, items, index + 1)

\* Substituted with a marker that names no array removed from the cell
Substituted_StripMarker(sh, d, r, c, cellValue, m) ==
  IF /\ m > 0
     /\ Truthy(Lookup(d, MarkerKey(cellValue, m)))
     /\ IsArray(Lookup(d, MarkerKey(cellValue, m)))
  THEN ExpandRows(sh, r, Lookup(d, MarkerKey(cellValue, m)).items, 0)
  ELSE [sh EXCEPT ![r][c] = Chars(IF m > 0 THEN WithoutMarkerAt(cellValue, m) ELSE cellValue)]

\* Substituted with an empty array treated as no array: the cell gets the
\* result of the single-value replacement
Substituted_EmptyWritesBack(sh, d, r, c, cellValue, m) ==
  IF /\ m > 0
     /\ Truthy(Lookup(d, MarkerKey(cellValue, m)))
     /\ IsArray(Lookup(d, MarkerKey(cellValue, m)))
     /\ Len(Lookup(d, MarkerKey(cellValue, m)).items) >= 1
  THEN ExpandRows(sh, r, Lookup(d, MarkerKey(cellValue, m)).items, 0)
  ELSE [sh EXCEPT ![r][c] = Chars(cellValue)]

\* the callback of row.eachCell after the single-value replacement gave
\* cellValue; m is the index of the first array marker of cellValue
Substituted(sh, d, r, c, cellValue, m) ==
  IF /\ m > 0
     /\ Truthy(Lookup(d, MarkerKey(cellValue, m)))
     /\ IsArray(Lookup(d, MarkerKey(cellValue, m)))
  THEN ExpandRows(sh, r, Lookup(d, MarkerKey(cellValue, m)).items, 0)
  ELSE [sh EXCEPT ![r][c] = Chars(cellValue)]

\* the single-value replacement gave cellValue
Replaced(sh, d, r, c, cellValue) == Substituted(sh, d, r, c, cellValue, FirstMarker(cellValue))

\* the callback of row.eachCell for the cell at row r, column c
FillCell(sh, d, r, c) ==
  IF IsStringCell(sh[r][c]) THEN Replaced(sh, d, r, c, ReplacePlaceholders(sh[r][c].cs, 1, d))
  ELSE sh

\* row.eachCell: the next cell from column c on that is not null, 0 if none
\* (a row without values has none)
NextCell(cells, c) ==
  IF \E j \in c..Len(cells) : cells[j].k # "absent"
  THEN CHOOSE j \in c..Len(cells) : cells[j].k # "absent" /\ \A i \in c..(j - 1) : cells[i].k = "absent"
  ELSE 0

\* the text of a placeholder and of an array marker
Ph(key) == <<"{", "{">> \o key \o <<"}", "}">>
Mk(key) == <<"{", "{", "#">> \o key \o <<"}", "}">>

\* the keys the templates and the data use
Key ==
  [items |-> <<"i", "t", "e", "m", "s">>,
   product |-> <<"p", "r", "o", "d", "u", "c", "t">>,
   qty |-> <<"q", "t", "y">>,
   total |-> <<"t", "o", "t", "a", "l">>,
   name |-> <<"n", "a", "m", "e">>,
   title |-> <<"t", "i", "t", "l", "e">>,
   missing |-> <<"m", "i", "s", "s", "i", "n", "g">>]

\* the template rows tried: an array row, a row of its own below or above it,
\* a row with a null cell and a placeholder the data has no key for, an array
\* row whose marker cell also holds a single-value placeholder, a number
ItemRow == << Chars(Mk(Key.items) \o Ph(Key.product) \o <<":", " ">> \o Ph(Key.qty)) >>
TotalRow == << Chars(<<"T", "o", "t", "a", "l", " ">> \o Ph(Key.total)) >>
GreetingRow ==
  << Chars(<<"H", "e", "l", "l", "o", " ">> \o Ph(Key.name)), Absent, Chars(Ph(Key.missing)) >>
TitledItemRow ==
  << Chars(Ph(Key.title) \o <<" ">> \o Mk(Key.items) \o Ph(Key.product)), Chars(Ph(Key.qty)) >>
TemplateRowKinds == {ItemRow, TotalRow, GreetingRow, TitledItemRow, <<Num(5)>>, <<>>}

\* the data tried: the i-th array element is {product: the i-th letter, qty: i}
Item(i) == Map(<< <<Key.product, Chars(<<FromCharCode(64 + i)>>)>>, <<Key.qty, Num(i)>> >>)
ItemList(n) == Arr([i \in 1..n |-> Item(i)])
Scalars ==
  << <<Key.name, Chars(<<"W", "o", "r", "l", "d">>)>>, <<Key.total, Num(5)>>,
     <<Key.title, Chars(<<"Q", "1">>)>> >>

DataSets ==
  {Map(Scalars), Map(<< <<Key.items, Chars(<<"x">>)>> >> \o Scalars)}
    \cup {Map(<< <<Key.items, ItemList(n)>> >> \o Scalars) : n \in 0..MaxItems}

FillInit ==
  /\ template \in {Str("report.xlsx"), Str("missing.xlsx")}
  /\ stored \in SeqsUpTo(TemplateRowKinds, MaxTemplateRows)
  /\ data \in DataSets
  /\ sheet = <<>> /\ rowsLen = 0 /\ rowNumber = 0 /\ colNumber = 0
  /\ visited = <<>> /\ fpc = "call"

\* fillTemplate up to the iteration: the template is loaded, and eachRow
\* starts on its worksheet with the number of rows it has now
FillTemplate ==
  /\ fpc = "call"
  /\ IF loadTemplate(<<>>, template).threw
     THEN /\ thrown' = loadTemplate(<<>>, template).error
          /\ fpc' = "catch"
          /\ UNCHANGED <<sheet, rowsLen, rowNumber, colNumber>>
     ELSE /\ sheet' = stored
          /\ rowsLen' = Len(stored)
          /\ rowNumber' = 1 /\ colNumber' = 1
          /\ fpc' = "rows"
          /\ UNCHANGED thrown
  /\ UNCHANGED <<template, stored, data, visited, response, addrVars, writerVars, composerVars, styleVars, serviceVars>>

\* one call of the callback of row.eachCell, on the next cell of the current
\* row that is not null
EachCell ==
  /\ fpc = "rows" /\ rowNumber <= rowsLen
  /\ NextCell(sheet[rowNumber], colNumber) > 0
  /\ sheet' = FillCell(sheet, data, rowNumber, NextCell(sheet[rowNumber], colNumber))
  /\ visited' = Append(visited, <<rowNumber, NextCell(sheet[rowNumber], colNumber)>>)
  /\ colNumber' = NextCell(sheet[rowNumber], colNumber) + 1
  /\ UNCHANGED <<template, stored, data, rowsLen, rowNumber, fpc, outVars, addrVars, writerVars,
                 composerVars, styleVars, serviceVars>>

\* the current row has no further cell: the forEach of eachRow goes to the next
\* index
NextRow ==
  /\ fpc = "rows" /\ rowNumber <= rowsLen
  /\ NextCell(sheet[rowNumber], colNumber) = 0
  /\ rowNumber' = rowNumber + 1
  /\ colNumber' = 1
  /\ UNCHANGED <<template, stored, data, sheet, rowsLen, visited, fpc, outVars, addrVars,
                 writerVars, composerVars, styleVars, serviceVars>>

\* the forEach has gone through the indexes it started with:
\* const buffer = await workbook.xlsx.writeBuffer(); return buffer
WriteFilledBuffer ==
  /\ fpc = "rows" /\ rowNumber > rowsLen
  /\ response' = [k |-> "buffer", status |-> 200, success |-> TRUE, workbook |-> sheet]
  /\ fpc' = "done"
  /\ UNCHANGED <<template, stored, data, sheet, rowsLen, rowNumber, colNumber, visited, thrown,
                 addrVars, writerVars, composerVars, styleVars, serviceVars>>

\* the catch of fillTemplate: whatever was thrown is thrown again as a 422
CatchFillTemplate ==
  /\ fpc = "catch"
  /\ thrown' = APIError(<<"Template filling failed: ">> \o thrown.message, 422)
  /\ fpc' = "errorHandler"
  /\ UNCHANGED <<template, stored, data, sheet, rowsLen, rowNumber, colNumber, visited, response,
                 addrVars, writerVars, composerVars, styleVars, serviceVars>>

\* the controller lets the error through to the error-handling middleware
FillErrorHandler ==
  /\ fpc = "errorHandler"
  /\ response' = errorHandler(thrown)
  /\ fpc' = "done"
  /\ UNCHANGED <<template, stored, data, sheet, rowsLen, rowNumber, colNumber, visited, thrown,
                 addrVars, writerVars, composerVars, styleVars, serviceVars>>

FillNext ==
  \/ FillTemplate \/ EachCell \/ NextRow \/ WriteFilledBuffer
  \/ CatchFillTemplate \/ FillErrorHandler

-----------------------------------------------------------------------------
(* Style normalizer and sheet formatting, called on their own *)

\* the cells tried: one with a value and no style, one with every style
\* attribute set by an earlier write
StyleCells ==
  {[NullCell EXCEPT !.value = Str("Total")],
   [value |-> Num(7),
    font |-> [k |-> "obj", name |-> Str("Arial"), size |-> Num(9), bold |-> Bool(TRUE),
              italic |-> Bool(FALSE), underline |-> Bool(FALSE), color |-> Absent],
    fill |-> [k |-> "obj", type |-> Str("pattern"), pattern |-> Str("solid"),
              fgColor |-> [k |-> "obj", argb |-> Chars(<<"F", "F", "0", "0", "F", "F", "0", "0">>)]],
    alignment |-> [k |-> "obj", horizontal |-> Str("right"), vertical |-> Str("middle"),
                   wrapText |-> Bool(TRUE), indent |-> Num(1)],
    border |-> [k |-> "obj", top |-> [k |-> "obj", style |-> Str("double")],
                left |-> [k |-> "obj", style |-> Str("double")],
                bottom |-> [k |-> "obj", style |-> Str("double")],
                right |-> [k |-> "obj", style |-> Str("double")]],
    numFmt |-> Str("0%")]}

\* a colour given as an object {argb: ...}, as the default header style gives it
ObjectColor == [k |-> "obj", argb |-> Chars(<<"F", "F", "3", "6", "6", "0", "9", "2">>)]

\* the StyleSpecs tried: every sub-object absent, well-formed, and (font, fill)
\* with a colour that is no string
StyleSpecs ==
  [k : {"obj"},
   font : {Absent,
           [k |-> "obj", bold |-> Bool(TRUE), color |-> Chars(<<"#", "a", "b", "c", "1", "2", "3">>)],
           [k |-> "obj", bold |-> Bool(TRUE), color |-> ObjectColor]},
   fill : {Absent,
           [k |-> "obj", fgColor |-> Chars(<<"#", "F", "2", "F", "2", "F", "2">>)],
           [k |-> "obj", fgColor |-> ObjectColor]},
   backgroundColor : {Absent, Chars(<<"f", "f", "f", "f", "0", "0">>)},
   alignment : {Absent, [k |-> "obj", horizontal |-> Str("center")]},
   border : {Absent, [k |-> "obj", top |-> [k |-> "obj", style |-> Str("thick")]]},
   numFmt : {Absent, Str("0.0")}]

\* the data-type tags tried: the seven of the switch, three in other letter
\* case, and one the switch does not know
DataTypes ==
  {Str(t) : t \in {"number", "currency", "percentage", "date", "datetime", "time", "text",
                   "Number", "CURRENCY", "Text", "general"}}

\* the explicit formats tried: none, one, and the empty string
Formats == {Absent, Str("#,##0"), Str("")}

\* the hex digits the colours tried are made of
HexDigits == {"a", "3"}

\* the colours tried: none, an object, runs of hex digits with and without a
\* leading '#', and the documented examples
Colors ==
  {Absent, ObjectColor,
   Chars(<<"#", "a", "b", "c", "1", "2", "3">>),
   Chars(<<"F", "F", "A", "B", "C", "1", "2", "3">>)}
    \cup {Chars(h) : h \in SeqsUpTo(HexDigits, MaxHexLen)}
    \cup {Chars(<<"#">> \o h) : h \in SeqsUpTo(HexDigits, MaxHexLen)}

\* the values of the cells of the worksheets tried: none (the sheet has no
\* such cell), a text of 8 characters, zero, a number, a text of 49 characters
GridValues ==
  {Absent, Str("Quantity"), Num(0), Num(1000),
   Str("A remark that is longer than the widest column is")}

\* the worksheet of two columns whose rows hold the values of grid
SheetOf(grid) ==
  [NewWorksheet("Sheet1") EXCEPT !.cells =
     [p \in {q \in (1..Len(grid)) \X (1..2) : grid[q[1]][q[2]] # Absent} |->
        [NullCell EXCEPT !.value = grid[p[1]][p[2]]]]]

\* the worksheets tried
FormattedSheets == {SheetOf(grid) : grid \in SeqsUpTo(GridValues \X GridValues, MaxGridRows)}

\* the formatting options tried: auto-width alone, with panes and page setup,
\* and panes without auto-width
Formattings ==
  {[k |-> "obj", autoWidth |-> Bool(TRUE)], SomeFormatting,
   [k |-> "obj", autoWidth |-> Bool(FALSE), freezeRows |-> Num(1)]}

StyleIdle ==
  /\ cellBefore = Absent /\ styleArg = Absent /\ dataTypeArg = Absent /\ formatArg = Absent
  /\ colorArg = Absent /\ cellAfter = Absent /\ colorOut = Absent
  /\ sheetArg = Absent /\ formattingArg = Absent /\ sheetAfter = Absent /\ spc = "idle"

StyleInit ==
  /\ spc \in {"applyCellStyle", "applyCellDataType", "normalizeColor", "applySheetFormatting"}
  /\ sheetArg \in (IF spc = "applySheetFormatting" THEN FormattedSheets ELSE {Absent})
  /\ formattingArg \in (IF spc = "applySheetFormatting" THEN Formattings ELSE {Absent})
  /\ sheetAfter = Absent
  /\ cellBefore \in (IF spc \in {"applyCellStyle", "applyCellDataType"} THEN StyleCells ELSE {Absent})
  /\ styleArg \in (IF spc = "applyCellStyle" THEN StyleSpecs ELSE {Absent})
  /\ dataTypeArg \in (IF spc = "applyCellDataType" THEN DataTypes ELSE {Absent})
  /\ formatArg \in (IF spc = "applyCellDataType" THEN Formats ELSE {Absent})
  /\ colorArg \in (IF spc = "normalizeColor" THEN Colors ELSE {Absent})
  /\ cellAfter = Absent /\ colorOut = Absent

\* one call of applyCellStyle
ApplyCellStyle ==
  /\ spc = "applyCellStyle"
  /\ cellAfter' = applyCellStyle(cellBefore, styleArg)
  /\ spc' = "styled"
  /\ UNCHANGED <<cellBefore, styleArg, dataTypeArg, formatArg, colorArg, colorOut>>
  /\ UNCHANGED <<sheetArg, formattingArg, sheetAfter>>
  /\ UNCHANGED <<addrVars, writerVars, composerVars, outVars, fillVars, serviceVars>>

\* one call of applyCellDataType
ApplyCellDataType ==
  /\ spc = "applyCellDataType"
  /\ cellAfter' = applyCellDataType(cellBefore, dataTypeArg, formatArg)
  /\ spc' = "typed"
  /\ UNCHANGED <<cellBefore, styleArg, dataTypeArg, formatArg, colorArg, colorOut>>
  /\ UNCHANGED <<sheetArg, formattingArg, sheetAfter>>
  /\ UNCHANGED <<addrVars, writerVars, composerVars, outVars, fillVars, serviceVars>>

\* one call of normalizeColor
NormalizeColor ==
  /\ spc = "normalizeColor"
  /\ colorOut' = normalizeColor(colorArg)
  /\ spc' = "normalized"
  /\ UNCHANGED <<cellBefore, styleArg, dataTypeArg, formatArg, colorArg, cellAfter>>
  /\ UNCHANGED <<sheetArg, formattingArg, sheetAfter>>
  /\ UNCHANGED <<addrVars, writerVars, composerVars, outVars, fillVars, serviceVars>>

\* one call of applySheetFormatting
FormatSheet ==
  /\ spc = "applySheetFormatting"
  /\ sheetAfter' = applySheetFormatting(sheetArg, formattingArg)
  /\ spc' = "formatted"
  /\ UNCHANGED <<cellBefore, styleArg, dataTypeArg, formatArg, colorArg, cellAfter, colorOut>>
  /\ UNCHANGED <<sheetArg, formattingArg>>
  /\ UNCHANGED <<addrVars, writerVars, composerVars, outVars, fillVars, serviceVars>>

StyleNext == ApplyCellStyle \/ ApplyCellDataType \/ NormalizeColor \/ FormatSheet

-----------------------------------------------------------------------------
(* Query safety gate *)

\* String.prototype.toLowerCase, one character
ToLower(ch) ==
  IF CharCode(ch) >= 65 /\ CharCode(ch) <= 90 THEN FromCharCode(CharCode(ch) + 32) ELSE ch

\* str.toLowerCase()
LowerCase(cs) == [i \in 1..Len(cs) |-> ToLower(cs[i])]

\* \s of a regular expression (of the characters of Ascii, the space)
IsSpace(ch) == ch = " "

\* str.trim(): the white space at both ends removed
RECURSIVE TrimStart(_)
TrimStart(cs) == IF cs # <<>> /\ IsSpace(cs[1]) THEN TrimStart(Tail(cs)) ELSE cs

RECURSIVE TrimEnd(_)
TrimEnd(cs) ==
  IF cs # <<>> /\ IsSpace(cs[Len(cs)]) THEN TrimEnd(SubSeq(cs, 1, Len(cs) - 1)) ELSE cs

Trim(cs) == TrimEnd(TrimStart(cs))

\* str.startsWith(prefix) and str.endsWith(suffix)
StartsWith(cs, prefix) == Len(cs) >= Len(prefix) /\ SubSeq(cs, 1, Len(prefix)) = prefix

EndsWith(cs, suffix) ==
  Len(cs) >= Len(suffix) /\ SubSeq(cs, Len(cs) - Len(suffix) + 1, Len(cs)) = suffix

\* the words of the patterns of validateQuery, in lower case
Word ==
  [select |-> <<"s", "e", "l", "e", "c", "t">>,
   drop |-> <<"d", "r", "o", "p">>,
   delete |-> <<"d", "e", "l", "e", "t", "e">>,
   truncate |-> <<"t", "r", "u", "n", "c", "a", "t", "e">>,
   alter |-> <<"a", "l", "t", "e", "r">>,
   create |-> <<"c", "r", "e", "a", "t", "e">>,
   insert |-> <<"i", "n", "s", "e", "r", "t">>,
   update |-> <<"u", "p", "d", "a", "t", "e">>,
   union |-> <<"u", "n", "i", "o", "n">>,
   exec |-> <<"e", "x", "e", "c">>,
   script |-> <<"s", "c", "r", "i", "p", "t">>]

\* the alternatives of the group (drop|delete|truncate|alter|create|insert|update)
Statements ==
  {Word.drop, Word.delete, Word.truncate, Word.alter, Word.create, Word.insert, Word.update}

\* a literal of a pattern with the flag i matched at index i of s: the index
\* after the match, 0 when s does not hold the word there
WordAt(s, i, word) ==
  IF i + Len(word) - 1 <= Len(s) /\ LowerCase(SubSeq(s, i, i + Len(word) - 1)) = word
  THEN i + Len(word)
  ELSE 0

\* \s* matched at index i of s: the index after the white space
RECURSIVE SkipSpaces(_, _)
SkipSpaces(s, i) == IF i <= Len(s) /\ IsSpace(s[i]) THEN SkipSpaces(s, i + 1) ELSE i

\* \s+ matched at index i of s: the index after the white space, 0 when s has
\* none there
SomeSpaces(s, i) == IF i >= 1 /\ i <= Len(s) /\ IsSpace(s[i]) THEN SkipSpaces(s, i) ELSE 0

\* one character matched at index i of s: the index after it, 0 if it is not there
CharAt(s, i, ch) == IF i >= 1 /\ i <= Len(s) /\ s[i] = ch THEN i + 1 ELSE 0

\* dangerousPatterns[n].test(sql), n counted from 1
PatternTest(n, sql) ==
  CASE n = 1 -> \E i \in 1..Len(sql), w \in Statements :
                  /\ sql[i] = ";"
                  /\ WordAt(sql, SkipSpaces(sql, i + 1), w) > 0
                  /\ SomeSpaces(sql, WordAt(sql, SkipSpaces(sql, i + 1), w)) > 0
    [] n = 2 -> \E i \in 1..Len(sql) :
                  /\ WordAt(sql, i, Word.union) > 0
                  /\ SomeSpaces(sql, WordAt(sql, i, Word.union)) > 0
                  /\ WordAt(sql, SomeSpaces(sql, WordAt(sql, i, Word.union)), Word.select) > 0
    [] n = 3 -> \E i \in 1..Len(sql) :
                  /\ WordAt(sql, i, Word.exec) > 0
                  /\ CharAt(sql, SkipSpaces(sql, WordAt(sql, i, Word.exec)), "(") > 0
    [] n = 4 -> \E i \in 1..Len(sql) :
                  /\ WordAt(sql, i, Word.script) > 0
                  /\ CharAt(sql, SkipSpaces(sql, WordAt(sql, i, Word.script)), ">") > 0

\* validateQuery with the first pattern alone
validateQuery_StatementsOnly(sql) == ~PatternTest(1, sql)

\* validateQuery(sql): no dangerous pattern matches
validateQuery(sql) == ~\E n \in 1..4 : PatternTest(n, sql)

\* new Error(message)
Error(message) ==
  [k |-> "error", name |-> "Error", message |-> message, statusCode |-> Absent, code |-> Absent]

\* what the database answers to a query: rows, or a failure
DbRows(n) == Arr([i \in 1..n |-> Map(<< <<"id", Num(i)>> >>)])

\* executeQuery(sql, params) with the connection conn and the database
\* answering outcome: [threw, error, data]
executeQuery(sql, conn, outcome) ==
  IF ~conn
  THEN [threw |-> TRUE, data |-> Absent,
        error |-> Error(<<"Database not initialized. Please check your DATABASE_URL configuration.">>)]
  ELSE IF outcome.k = "arr"
  THEN [threw |-> FALSE, data |-> outcome, error |-> Absent]
  ELSE [threw |-> TRUE, data |-> Absent, error |-> Error(<<"Database query failed: ", "query error">>)]

\* executeSafeQuery(sql, params): [threw, error, data, passed], passed being
\* the queries handed to executeQuery
executeSafeQuery(sql, conn, outcome) ==
  IF ~StartsWith(LowerCase(Trim(sql)), Word.select)
  THEN [threw |-> TRUE, data |-> Absent, passed |-> <<>>,
        error |-> Error(<<"Only SELECT queries are allowed">>)]
  ELSE IF ~validateQuery(sql)
  THEN [threw |-> TRUE, data |-> Absent, passed |-> <<>>,
        error |-> Error(<<"Query contains potentially dangerous patterns">>)]
  ELSE [threw |-> executeQuery(sql, conn, outcome).threw,
        data |-> executeQuery(sql, conn, outcome).data,
        error |-> executeQuery(sql, conn, outcome).error,
        passed |-> <<sql>>]

\* getSampleData(): the five fixed rows (of each row the id, the name and
\* the salary)
SampleRow(i, name, salary) ==
  Map(<< <<"id", Num(i)>>, <<"name", Str(name)>>, <<"salary", Num(salary)>> >>)

getSampleData ==
  Arr(<< SampleRow(1, "John Doe", 75000), SampleRow(2, "Jane Smith", 65000),
         SampleRow(3, "Bob Johnson", 70000), SampleRow(4, "Alice Brown", 60000),
         SampleRow(5, "Charlie Wilson", 80000) >>)

-----------------------------------------------------------------------------
(* Template files *)

\* a string given by the segments a '/' separates
Name(segs) == [k |-> "name", segs |-> segs]

\* __dirname of the service module and of the controller module: each is a
\* directory next to the template directory
ServiceDir == <<"app", "services">>
ControllerDir == <<"app", "controllers">>

\* path.normalize on the segments of an absolute path: '.' and empty segments
\* are dropped, '..' removes the segment before it
RECURSIVE Normalize(_, _)
Normalize(done, segs) ==
  IF segs = <<>> THEN done
  ELSE IF Head(segs) \in {".", ""} THEN Normalize(done, Tail(segs))
  ELSE IF Head(segs) = ".."
  THEN Normalize(IF done = <<>> THEN <<>> ELSE SubSeq(done, 1, Len(done) - 1), Tail(segs))
  ELSE Normalize(Append(done, Head(segs)), Tail(segs))

\* path.join(...segments)
PathJoin(segs) == Normalize(<<>>, segs)

\* const templatePath = path.join(__dirname, '..', 'templates', templateName)
TemplatePath(templateName) == PathJoin(ServiceDir \o <<"..", "templates">> \o templateName.segs)

\* the files on the disk of the service: workbooks, and files that are none
WorkbookFiles == {<<"app", "templates", "report.xlsx">>, <<"srv", "private", "ledger.xlsx">>}
OtherFiles == {<<"app", "server.js">>}

\* the rows of the worksheet of a workbook file
WorkbookRows(path) == <<ItemRow, TotalRow>>

\* await workbook.xlsx.readFile(templatePath) in loadTemplate, and its catch:
\* [threw, error]
LoadTemplateAt(path) ==
  IF path \in WorkbookFiles THEN [threw |-> FALSE, error |-> Absent]
  ELSE [threw |-> TRUE,
        error |-> APIError(<<"Template loading failed: ",
                             IF path \in OtherFiles THEN "Can't find end of central directory: "
                             ELSE "File not found: ">> \o path, 404)]

-----------------------------------------------------------------------------
(* The engine as its callers see it *)

\* processSheet for the sheet definition at index idx of wb1, a sheet that
\* holds one table and possibly formatting: [threw, workbook]
TableSheet(wb1, idx, sheetDef, written) ==
  IF written.threw THEN [threw |-> TRUE, workbook |-> wb1]
  ELSE [threw |-> FALSE,
        workbook |-> [wb1 EXCEPT ![idx] =
                        IF Truthy(Prop(sheetDef, "formatting"))
                        THEN applySheetFormatting(written.ws, sheetDef.formatting)
                        ELSE written.ws]]

\* processSheet(workbook, sheetDef) for a sheet that holds one table, the
\* worksheet fetched or created: [threw, workbook]
processSheet(wb, sheetDef) ==
  IF GetWorksheet(wb, sheetDef.name.s) = 0
  THEN TableSheet(Append(wb, NewWorksheet(sheetDef.name.s)), Len(wb) + 1, sheetDef,
                  processTable(NewWorksheet(sheetDef.name.s), sheetDef.tables.items[1]))
  ELSE TableSheet(wb, GetWorksheet(wb, sheetDef.name.s), sheetDef,
                  processTable(wb[GetWorksheet(wb, sheetDef.name.s)], sheetDef.tables.items[1]))

\* the for loop of createWorkbook from sheet i on: [threw, workbook]
RECURSIVE TableSheets(_, _, _)
TableSheets(wb, sheets, i) ==
  IF i > Len(sheets) THEN [threw |-> FALSE, workbook |-> wb]
  ELSE IF processSheet(wb, sheets[i]).threw THEN [threw |-> TRUE, workbook |-> wb]
  ELSE TableSheets(processSheet(wb, sheets[i]).workbook, sheets, i + 1)

\* the end of createWorkbook: the buffer, or the error of its catch
Composed(res, reads) ==
  IF res.threw
  THEN [threw |-> TRUE, workbook |-> <<>>, reads |-> reads,
        error |-> APIError(<<"Excel generation failed: ", "Sheet processing failed: ",
                             "Table processing failed: ">>, 422)]
  ELSE [threw |-> FALSE, workbook |-> res.workbook, reads |-> reads, error |-> Absent]

\* ExcelService.createWorkbook(payload) for a payload whose sheets hold one
\* table each: [threw, error, workbook, reads], reads being the files read
createWorkbook(doc) ==
  IF ~Truthy(Prop(doc, "template"))
  THEN Composed(TableSheets(<<>>, OrElse(Prop(doc, "sheets"), Arr(<<>>)).items, 1), <<>>)
  ELSE IF LoadTemplateAt(TemplatePath(doc.template)).threw
  THEN [threw |-> TRUE, workbook |-> <<>>, reads |-> <<TemplatePath(doc.template)>>,
        error |-> APIError(<<"Excel generation failed: ">>
                             \o LoadTemplateAt(TemplatePath(doc.template)).error.message, 422)]
  ELSE Composed(TableSheets(TemplateSheets("report.xlsx"),
                            OrElse(Prop(doc, "sheets"), Arr(<<>>)).items, 1),
                <<TemplatePath(doc.template)>>)

\* worksheet.eachRow of fillWorksheetTemplate from row r, column c on, over
\* the rowsLen rows the sheet had when the iteration started
RECURSIVE FillRows(_, _, _, _, _)
FillRows(sh, d, n, r, c) ==
  IF r > n THEN sh
  ELSE IF NextCell(sh[r], c) = 0 THEN FillRows(sh, d, n, r + 1, 1)
  ELSE FillRows(FillCell(sh, d, r, NextCell(sh[r], c)), d, n, r, NextCell(sh[r], c) + 1)

\* ExcelService.fillTemplate(templateName, data): [threw, error, workbook, reads]
fillTemplate(templateName, d) ==
  IF LoadTemplateAt(TemplatePath(templateName)).threw
  THEN [threw |-> TRUE, workbook |-> <<>>, reads |-> <<TemplatePath(templateName)>>,
        error |-> APIError(<<"Template filling failed: ">>
                             \o LoadTemplateAt(TemplatePath(templateName)).error.message, 422)]
  ELSE [threw |-> FALSE, error |-> Absent, reads |-> <<TemplatePath(templateName)>>,
        workbook |-> FillRows(WorkbookRows(TemplatePath(templateName)), d,
                              Len(WorkbookRows(TemplatePath(templateName))), 1, 1)]

\* the payload generateFromQueryResults hands to createWorkbook
QueryResultsPayload(d, options) ==
  [k |-> "obj",
   sheets |-> Arr(<< [k |-> "obj",
                      name |-> OrElse(Prop(options, "sheetName"), Str("QueryResults")),
                      tables |-> Arr(<< [k |-> "obj",
                                         name |-> OrElse(Prop(options, "tableName"), Str("DataTable")),
                                         range |-> OrElse(Prop(options, "startCell"), Chars(<<"A", "1">>)),
                                         data |-> d,
                                         style |-> OrElse(Prop(options, "style"),
                                                          [k |-> "obj",
                                                           header |-> [DefaultHeaderStyle EXCEPT
                                                                         !.alignment = Absent]])] >>)] >>)]

\* the catch of generateFromQueryResults
QueryResultsCatch(res) ==
  IF res.threw
  THEN [res EXCEPT !.error = APIError(<<"Query result Excel generation failed: ">>
                                        \o res.error.message, 422)]
  ELSE res

\* ExcelService.generateFromQueryResults(data, options)
generateFromQueryResults(d, options) == QueryResultsCatch(createWorkbook(QueryResultsPayload(d, options)))

-----------------------------------------------------------------------------
(* Request handlers *)

\* a query given by its tokens; the text is their concatenation
Query(toks) == [k |-> "query", toks |-> toks]

TokenText ==
  [SELECT |-> <<"S", "E", "L", "E", "C", "T">>, SP |-> <<" ">>, SEMI |-> <<";">>,
   Drop |-> <<"D", "r", "o", "p">>, Union |-> <<"U", "n", "i", "o", "n">>,
   exec |-> <<"e", "x", "e", "c">>, LP |-> <<"(">>, script |-> <<"s", "c", "r", "i", "p", "t">>,
   GT |-> <<">">>]

Tokens == DOMAIN TokenText

\* the text of a sequence of tokens
RECURSIVE TextOf(_)
TextOf(toks) == IF toks = <<>> THEN <<>> ELSE TokenText[Head(toks)] \o TextOf(Tail(toks))

\* Joi.string(), Joi.array(), Joi.object(), Joi.boolean() on a value that is
\* present: the text of the error, "" when the value passes
TypeError(v, type) ==
  CASE type = "string" -> IF v.k \notin {"str", "chars", "name", "query"} THEN " must be a string"
                          ELSE IF ~Truthy(v) THEN " is not allowed to be empty"
                          ELSE ""
    [] type = "array" -> IF v.k = "arr" THEN "" ELSE " must be an array"
    [] type = "object" -> IF v.k \in {"obj", "map"} THEN "" ELSE " must be of type object"
    [] type = "boolean" -> IF v.k = "bool" THEN "" ELSE " must be a boolean"

\* one key of a Joi object schema: the type, required or optional, the default
SchemaKey(key, type, required, default) ==
  [key |-> key, type |-> type, required |-> required, default |-> default]

\* the schema each handler validates the request body against (the keys of
\* the body itself; the items of sheets are taken to be well-formed)
Schema(handler) ==
  CASE handler = "generateExcel" ->
         << SchemaKey("template", "string", FALSE, Absent),
            SchemaKey("filename", "string", FALSE, Str("generated.xlsx")),
            SchemaKey("sheets", "array", TRUE, Absent) >>
    [] handler = "generateFromQuery" ->
         << SchemaKey("query", "string", TRUE, Absent),
            SchemaKey("params", "array", FALSE, Arr(<<>>)),
            SchemaKey("sheetName", "string", FALSE, Str("QueryResults")),
            SchemaKey("filename", "string", FALSE, Str("query-results.xlsx")),
            SchemaKey("startCell", "string", FALSE, Chars(<<"A", "1">>)),
            SchemaKey("includeHeaders", "boolean", FALSE, Bool(TRUE)),
            SchemaKey("style", "object", FALSE, Absent) >>
    [] handler = "fillTemplate" ->
         << SchemaKey("template", "string", TRUE, Absent),
            SchemaKey("data", "object", TRUE, Absent),
            SchemaKey("filename", "string", FALSE, Str("filled-template.xlsx")) >>
    [] handler = "generateMultiSheet" ->
         << SchemaKey("sheets", "array", TRUE, Absent),
            SchemaKey("filename", "string", FALSE, Str("multi-sheet.xlsx")) >>
    [] handler = "generateStyledExcel" ->
         << SchemaKey("sheets", "array", TRUE, Absent),
            SchemaKey("filename", "string", FALSE, Str("styled-excel.xlsx")) >>
    [] handler = "validateQuery" ->
         << SchemaKey("query", "string", TRUE, Absent) >>

SchemaKeys(schema) == {schema[i].key : i \in 1..Len(schema)}

\* the keys of b the schema does not know
UnknownKeys(schema, b) == (DOMAIN b) \ (SchemaKeys(schema) \cup {"k"})

\* error.details[0].message for the keys of the schema from the i-th on, then
\* for the keys the schema does not know: the label and the text, <<>> when b
\* passes
RECURSIVE FirstError(_, _, _)
FirstError(schema, b, i) ==
  IF i > Len(schema)
  THEN IF UnknownKeys(schema, b) = {} THEN <<>>
       ELSE <<CHOOSE key \in UnknownKeys(schema, b) : TRUE, " is not allowed">>
  ELSE IF Prop(b, schema[i].key).k = "absent"
  THEN IF schema[i].required THEN <<schema[i].key, " is required">>
       ELSE FirstError(schema, b, i + 1)
  ELSE IF TypeError(b[schema[i].key], schema[i].type) # ""
  THEN <<schema[i].key, TypeError(b[schema[i].key], schema[i].type)>>
  ELSE FirstError(schema, b, i + 1)

\* the keys of the schema that have a default
Defaulted(schema) == {i \in 1..Len(schema) : schema[i].default.k # "absent"}

\* value: b with the defaults of the keys it does not have
WithDefaults(schema, b) ==
  [key \in (DOMAIN b) \cup {schema[i].key : i \in Defaulted(schema)} |->
     IF key \in DOMAIN b THEN b[key]
     ELSE schema[CHOOSE i \in Defaulted(schema) : schema[i].key = key].default]

\* schema.validate that lets keys the schema does not know through
validate_AllowUnknown(schema, b) ==
  IF FirstError(schema, [key \in (DOMAIN b) \ UnknownKeys(schema, b) |-> b[key]], 1) # <<>>
  THEN [error |-> FirstError(schema, [key \in (DOMAIN b) \ UnknownKeys(schema, b) |-> b[key]], 1),
        value |-> Absent]
  ELSE [error |-> <<>>, value |-> WithDefaults(schema, b)]

\* schema.validate(req.body): {error, value}
validate(schema, b) ==
  IF FirstError(schema, b, 1) # <<>> THEN [error |-> FirstError(schema, b, 1), value |-> Absent]
  ELSE [error |-> <<>>, value |-> WithDefaults(schema, b)]

\* the handlers that validate the request body first
ValidatedHandlers ==
  {"generateExcel", "generateFromQuery", "fillTemplate", "generateMultiSheet",
   "generateStyledExcel", "validateQuery"}

\* the template names tried: in the template directory, not there, with '..'
\* segments that leave the directory or stay in it
TemplateNames ==
  { Name(<<"report.xlsx">>), Name(<<"missing.xlsx">>), Name(<<"Database.xlsx">>),
    Name(<<"..", "server.js">>), Name(<<"..", "..", "srv", "private", "ledger.xlsx">>),
    Name(<<"sub", "..", "report.xlsx">>) }

\* the queries the request bodies hold
BodyQueries ==
  { Query(<<"SELECT", "SP", "SELECT">>), Query(<<"SP", "SELECT", "SP">>),
    Query(<<"Drop", "SP", "SELECT">>), Query(<<"SELECT", "SEMI", "Drop", "SP">>),
    Query(<<"SELECT", "SP", "Union", "SP", "SELECT">>) }

\* sheets of one table each: one that can be written, one without data rows
TableSheetDef(name, table) == [k |-> "obj", name |-> Str(name), tables |-> Arr(<<table>>)]

\* the request bodies tried for each handler: well-formed ones, and ones with
\* a required key missing, a value of the wrong type or a key the schema does
\* not know
Bodies(handler) ==
  CASE handler = "generateExcel" ->
         {[k |-> "obj", sheets |-> Arr(s)] :
            s \in {<<>>, <<TableSheetDef("Data", GoodTable)>>, <<TableSheetDef("Data", BadTable)>>}}
         \cup {[k |-> "obj", template |-> t, sheets |-> Arr(<<TableSheetDef("Sheet1", GoodTable)>>)] :
                 t \in TemplateNames}
         \cup {[k |-> "obj"], [k |-> "obj", sheets |-> Str("x")],
               [k |-> "obj", template |-> Num(5), sheets |-> Arr(<<>>)],
               [k |-> "obj", sheets |-> Arr(<<>>), Database |-> Num(1)],
               [k |-> "obj", sheets |-> Arr(<<>>), Excel |-> Num(1)]}
    [] handler = "generateFromQuery" ->
         {[k |-> "obj", query |-> q] : q \in BodyQueries}
         \cup {[k |-> "obj", query |-> q, startCell |-> Chars(<<"C", "3">>)] : q \in BodyQueries}
         \cup {[k |-> "obj"], [k |-> "obj", query |-> Num(5)],
               [k |-> "obj", query |-> Query(<<"SELECT", "SP", "SELECT">>), Excel |-> Num(1)]}
    [] handler = "fillTemplate" ->
         {[k |-> "obj", template |-> t, data |-> d] :
            t \in TemplateNames, d \in {Map(Scalars), Map(<< <<Key.items, ItemList(2)>> >> \o Scalars)}}
         \cup {[k |-> "obj", template |-> Name(<<"report.xlsx">>)],
               [k |-> "obj", data |-> Map(Scalars)],
               [k |-> "obj", template |-> Name(<<"report.xlsx">>), data |-> Arr(<<>>)],
               [k |-> "obj", template |-> Name(<<"report.xlsx">>), data |-> Map(Scalars),
                Database |-> Num(1)]}
    [] handler = "generateMultiSheet" ->
         {[k |-> "obj", sheets |-> Arr(s)] :
            s \in SeqsUpTo({[k |-> "obj", name |-> Str("Q"), query |-> Query(<<"SELECT", "SP", "SELECT">>)],
                            [k |-> "obj", name |-> Str("R"), query |-> Query(<<"Drop", "SP", "SELECT">>),
                             data |-> Arr(<<>>)],
                            [k |-> "obj", name |-> Str("D"), data |-> GoodTable.data]}, MaxSheets)}
         \cup {[k |-> "obj"], [k |-> "obj", sheets |-> Arr(<<>>), Excel |-> Num(1)]}
    [] handler = "generateStyledExcel" ->
         {[k |-> "obj", sheets |-> Arr(s)] :
            s \in SeqsUpTo({[k |-> "obj", name |-> Str("S"), data |-> GoodTable.data,
                             formatting |-> SomeFormatting],
                            [k |-> "obj", name |-> Str("E"), data |-> Arr(<<>>)]}, MaxSheets)}
         \cup {[k |-> "obj"], [k |-> "obj", sheets |-> Num(1)]}
    [] handler = "validateQuery" ->
         {[k |-> "obj", query |-> q] : q \in BodyQueries} \cup {[k |-> "obj"]}
    [] handler = "executeSafeQuery" ->
         {Query(toks) : toks \in SeqsUpTo(Tokens, MaxQueryTokens)} \cup BodyQueries

\* what the database may answer
DbOutcomes == {DbRows(n) : n \in 0..MaxQueryRows} \cup {[k |-> "fail"]}

ApiIdle ==
  /\ route = "idle" /\ body = Absent /\ hpc = "idle" /\ validated = Absent /\ effects = <<>>
  /\ queryData = Absent /\ raised = Absent /\ reply = Absent /\ dbConnection = FALSE

ApiInit ==
  /\ route \in ValidatedHandlers \cup {"executeSafeQuery"}
  /\ body \in Bodies(route)
  /\ dbConnection \in (IF route = "executeSafeQuery" THEN {TRUE} ELSE BOOLEAN)
  /\ hpc = "received" /\ validated = Absent /\ effects = <<>>
  /\ queryData = Absent /\ raised = Absent /\ reply = Absent

\* one call a handler makes
Call(fn, arg) == [fn |-> fn, arg |-> arg]

ReadCalls(reads) == [i \in 1..Len(reads) |-> Call("readFile", reads[i])]
QueryCalls(passed) == [i \in 1..Len(passed) |-> Call("executeQuery", passed[i])]

\* the first statements of every handler of ValidatedHandlers:
\* const { error, value } = schema.validate(req.body); if (error) throw ...
Validate ==
  /\ hpc = "received" /\ route \in ValidatedHandlers
  /\ IF validate(Schema(route), body).error # <<>>
     THEN /\ raised' = APIError(<<"Validation error: ">> \o validate(Schema(route), body).error, 400)
          /\ hpc' = "errorHandler"
          /\ UNCHANGED validated
     ELSE /\ validated' = validate(Schema(route), body).value
          /\ hpc' = "validated"
          /\ UNCHANGED raised
  /\ UNCHANGED <<route, body, effects, queryData, reply, dbConnection>>
  /\ UNCHANGED <<engineVars, storeVars, pairVars>>

\* the rest of a handler around the call of the engine that returned res, the
\* calls before being made: the buffer is sent, or the error is let through
Served(before, call, res) ==
  /\ effects' = effects \o before \o <<call>> \o ReadCalls(res.reads)
                  \o (IF res.threw THEN <<>> ELSE <<Call("send", Absent)>>)
  /\ IF res.threw
     THEN raised' = res.error /\ hpc' = "errorHandler" /\ UNCHANGED reply
     ELSE /\ reply' = [k |-> "buffer", status |-> 200, success |-> TRUE, workbook |-> res.workbook]
          /\ hpc' = "done"
          /\ UNCHANGED raised

\* generateExcel after the validation
GenerateExcel ==
  /\ hpc = "validated" /\ route = "generateExcel"
  /\ Served(<<>>, Call("createWorkbook", validated), createWorkbook(validated))
  /\ UNCHANGED <<route, body, validated, queryData, dbConnection>>
  /\ UNCHANGED <<engineVars, storeVars, pairVars>>

\* the catch around executeSafeQuery that drops the error and leaves data empty
QueryFallback_Empty(q) == [threw |-> q.threw, data |-> IF q.threw THEN Arr(<<>>) ELSE q.data]

\* try { data = await executeSafeQuery(...) } catch (dbError) { data = getSampleData() }
QueryFallback(q) == [threw |-> q.threw, data |-> IF q.threw THEN getSampleData ELSE q.data]

\* generateFromQuery after the validation, up to the test of the data
Queried(q) ==
  /\ effects' = effects \o QueryCalls(q.passed)
  /\ queryData' = QueryFallback(q)
  /\ IF ~Truthy(QueryFallback(q).data) \/ Len(QueryFallback(q).data.items) = 0
     THEN raised' = APIError(<<"Query returned no results">>, 404) /\ hpc' = "errorHandler"
     ELSE hpc' = "queried" /\ UNCHANGED raised

GenerateFromQuery ==
  /\ hpc = "validated" /\ route = "generateFromQuery"
  /\ \E outcome \in DbOutcomes :
       Queried(executeSafeQuery(TextOf(validated.query.toks), dbConnection, outcome))
  /\ UNCHANGED <<route, body, validated, reply, dbConnection>>
  /\ UNCHANGED <<engineVars, storeVars, pairVars>>

\* generateFromQuery from the call of generateFromQueryResults on
GenerateFromQueryResults ==
  /\ hpc = "queried" /\ route = "generateFromQuery"
  /\ Served(<<>>, Call("generateFromQueryResults", queryData.data),
            generateFromQueryResults(queryData.data,
                                     [k |-> "obj", sheetName |-> validated.sheetName,
                                      startCell |-> validated.startCell,
                                      style |-> Prop(validated, "style")]))
  /\ UNCHANGED <<route, body, validated, queryData, dbConnection>>
  /\ UNCHANGED <<engineVars, storeVars, pairVars>>

\* ExcelController.fillTemplate after the validation
FillTemplateRequest ==
  /\ hpc = "validated" /\ route = "fillTemplate"
  /\ Served(<<>>, Call("fillTemplate", validated.template),
            fillTemplate(validated.template, validated.data))
  /\ UNCHANGED <<route, body, validated, queryData, dbConnection>>
  /\ UNCHANGED <<engineVars, storeVars, pairVars>>

\* if (!data || data.length === 0) data = [{ message: 'No data available' }]
OrNoData(d) ==
  IF ~Truthy(d) \/ Len(d.items) = 0
  THEN Arr(<< Map(<< <<"message", Str("No data available")>> >>) >>)
  ELSE d

\* the data generateMultiSheet gives the table of one sheet, q being the
\* result of the sheet's query
MultiSheetData(sheetDef, q) ==
  OrNoData(IF Truthy(Prop(sheetDef, "query")) /\ ~Truthy(Prop(sheetDef, "data"))
           THEN QueryFallback(q).data
           ELSE Prop(sheetDef, "data"))

\* the queries generateMultiSheet hands to executeQuery for one sheet
MultiSheetPassed(sheetDef, q) ==
  IF Truthy(Prop(sheetDef, "query")) /\ ~Truthy(Prop(sheetDef, "data")) THEN q.passed ELSE <<>>

\* the query of a sheet definition, the empty text when it has none
SheetQuery(sheetDef) ==
  IF Truthy(Prop(sheetDef, "query")) THEN TextOf(sheetDef.query.toks) ELSE <<>>

\* the sheet generateMultiSheet and generateStyledExcel push for one sheet of
\* the request
PushedSheet(name, d, style, formatting) ==
  [k |-> "obj", name |-> name, formatting |-> formatting,
   tables |-> Arr(<< [k |-> "obj", name |-> Str(name.s \o "Table"), range |-> Chars(<<"A", "1">>),
                      data |-> d, style |-> style] >>)]

RECURSIVE JoinCalls(_, _)
JoinCalls(calls, i) == IF i > Len(calls) THEN <<>> ELSE calls[i] \o JoinCalls(calls, i + 1)

\* generateMultiSheet after the validation
GenerateMultiSheet ==
  /\ hpc = "validated" /\ route = "generateMultiSheet"
  /\ \E outcome \in DbOutcomes :
       Served(JoinCalls([i \in 1..Len(validated.sheets.items) |->
                           QueryCalls(MultiSheetPassed(validated.sheets.items[i],
                                        executeSafeQuery(SheetQuery(validated.sheets.items[i]),
                                                         dbConnection, outcome)))], 1),
              Call("createWorkbook", Absent),
              createWorkbook([k |-> "obj",
                              sheets |-> Arr([i \in 1..Len(validated.sheets.items) |->
                                PushedSheet(validated.sheets.items[i].name,
                                            MultiSheetData(validated.sheets.items[i],
                                              executeSafeQuery(SheetQuery(validated.sheets.items[i]),
                                                               dbConnection, outcome)),
                                            Prop(validated.sheets.items[i], "style"), Absent)])]))
  /\ UNCHANGED <<route, body, validated, queryData, dbConnection>>
  /\ UNCHANGED <<engineVars, storeVars, pairVars>>

\* generateStyledExcel after the validation
GenerateStyledExcel ==
  /\ hpc = "validated" /\ route = "generateStyledExcel"
  /\ Served(<<>>, Call("createWorkbook", Absent),
            createWorkbook([k |-> "obj",
                            sheets |-> Arr([i \in 1..Len(validated.sheets.items) |->
                              PushedSheet(validated.sheets.items[i].name,
                                          validated.sheets.items[i].data,
                                          Prop(validated.sheets.items[i], "styles"),
                                          Prop(validated.sheets.items[i], "formatting"))])]))
  /\ UNCHANGED <<route, body, validated, queryData, dbConnection>>
  /\ UNCHANGED <<engineVars, storeVars, pairVars>>

\* ExcelController.validateQuery after the validation
ValidateQuery ==
  /\ hpc = "validated" /\ route = "validateQuery"
  /\ reply' = [k |-> "json", status |-> 200, success |-> TRUE,
               valid |-> validateQuery(TextOf(validated.query.toks))]
  /\ hpc' = "done"
  /\ UNCHANGED <<route, body, validated, effects, queryData, raised, dbConnection>>
  /\ UNCHANGED <<engineVars, storeVars, pairVars>>

\* executeSafeQuery called on its own
SafelyQueried(q) ==
  /\ effects' = QueryCalls(q.passed)
  /\ queryData' = [threw |-> q.threw, data |-> q.data]
  /\ raised' = q.error

ExecuteSafeQuery ==
  /\ hpc = "received" /\ route = "executeSafeQuery"
  /\ \E outcome \in DbOutcomes : SafelyQueried(executeSafeQuery(TextOf(body.toks), dbConnection, outcome))
  /\ hpc' = "done"
  /\ UNCHANGED <<route, body, validated, reply, dbConnection>>
  /\ UNCHANGED <<engineVars, storeVars, pairVars>>

\* asyncHandler hands the error to the error-handling middleware
ApiErrorHandler ==
  /\ hpc = "errorHandler"
  /\ reply' = errorHandler(raised)
  /\ hpc' = "done"
  /\ UNCHANGED <<route, body, validated, effects, queryData, raised, dbConnection>>
  /\ UNCHANGED <<engineVars, storeVars, pairVars>>

ApiNext ==
  \/ Validate \/ GenerateExcel \/ GenerateFromQuery \/ GenerateFromQueryResults
  \/ FillTemplateRequest \/ GenerateMultiSheet \/ GenerateStyledExcel \/ ValidateQuery
  \/ ExecuteSafeQuery \/ ApiErrorHandler

-----------------------------------------------------------------------------
(* Template store: upload, list, delete *)

\* the index of the last '.' of a name, 0 when it has none
LastDot(cs) ==
  IF \E i \in 1..Len(cs) : cs[i] = "."
  THEN CHOOSE i \in 1..Len(cs) : cs[i] = "." /\ \A j \in (i + 1)..Len(cs) : cs[j] # "."
  ELSE 0

\* path.extname(name): the name from its last '.' on, empty when the name has
\* no '.' or only one at its start
ExtName(cs) == IF LastDot(cs) <= 1 THEN <<>> ELSE SubSeq(cs, LastDot(cs), Len(cs))

DotXlsx == <<".", "x", "l", "s", "x">>
DotXls == <<".", "x", "l", "s">>

\* fileFilter: the extension in lower case is one of allowedTypes
fileFilter(originalname) == LowerCase(ExtName(originalname)) \in {DotXlsx, DotXls}

\* the filename of the disk storage: file.fieldname + '-' + uniqueSuffix +
\* path.extname(file.originalname), n standing for the unique suffix
StoredName(n, originalname) ==
  <<"t", "e", "m", "p", "l", "a", "t", "e", "-">> \o DecimalString(n) \o ExtName(originalname)

\* file.endsWith('.xlsx') || file.endsWith('.xls')
Listed(file) == EndsWith(file, DotXlsx) \/ EndsWith(file, DotXls)

\* the names of the files uploaded
OriginalNames ==
  { <<"a", ".", "x", "l", "s", "x">>, <<"b", ".", "X", "L", "S", "X">>,
    <<"c", ".", "x", "l", "s">>, <<"d", ".", "X", "l", "s">>,
    <<"e", ".", "t", "x", "t">>, <<"f">>, <<"g", ".", "x", "l", "s", ".", "t", "x", "t">> }

StoreIdle ==
  /\ templatesDir = {} /\ uploads = <<>> /\ deletions = {} /\ listing = Absent
  /\ storeReply = Absent /\ requests = -1

StoreInit ==
  /\ templatesDir = {} /\ uploads = <<>> /\ deletions = {} /\ listing = Absent
  /\ storeReply = Absent /\ requests = 0

\* POST /template with a file the filter accepts: multer stores it, then
\* uploadTemplate answers 201 with the stored name
UploadTemplate ==
  /\ requests >= 0 /\ requests < MaxRequests
  /\ \E originalname \in OriginalNames :
       /\ fileFilter(originalname)
       /\ templatesDir' = templatesDir \cup {StoredName(Len(uploads) + 1, originalname)}
       /\ uploads' = Append(uploads, StoredName(Len(uploads) + 1, originalname))
       /\ storeReply' = [k |-> "json", status |-> 201, success |-> TRUE,
                         filename |-> StoredName(Len(uploads) + 1, originalname)]
  /\ requests' = requests + 1
  /\ UNCHANGED <<deletions, listing>>
  /\ UNCHANGED <<engineVars, apiVars, pairVars>>

\* POST /template with a file the filter refuses (the error of the filter goes
\* to the error handler), or with no file at all
UploadRefused ==
  /\ requests >= 0 /\ requests < MaxRequests
  /\ \/ \E originalname \in OriginalNames :
          /\ ~fileFilter(originalname)
          /\ storeReply' = errorHandler(Error(<<"Only Excel files (.xlsx, .xls) are allowed">>))
     \/ storeReply' = errorHandler(APIError(<<"No template file uploaded">>, 400))
  /\ requests' = requests + 1
  /\ UNCHANGED <<templatesDir, uploads, deletions, listing>>
  /\ UNCHANGED <<engineVars, apiVars, pairVars>>

\* ExcelController.listTemplates
ListTemplates ==
  /\ requests >= 0 /\ requests < MaxRequests
  /\ listing' = [k |-> "files", names |-> {file \in templatesDir : Listed(file)}]
  /\ storeReply' = [k |-> "json", status |-> 200, success |-> TRUE,
                    count |-> Cardinality({file \in templatesDir : Listed(file)})]
  /\ requests' = requests + 1
  /\ UNCHANGED <<templatesDir, uploads, deletions>>
  /\ UNCHANGED <<engineVars, apiVars, pairVars>>

\* the names deleteTemplate is asked to delete: those stored so far, and one
\* that never was
DeleteNames == {uploads[i] : i \in 1..Len(uploads)} \cup {<<"n", "o", "n", "e", ".", "x", "l", "s", "x">>}

\* ExcelController.deleteTemplate
DeleteTemplate ==
  /\ requests >= 0 /\ requests < MaxRequests
  /\ \E filename \in DeleteNames :
       IF filename \in templatesDir
       THEN /\ templatesDir' = templatesDir \ {filename}
            /\ deletions' = deletions \cup {filename}
            /\ storeReply' = [k |-> "json", status |-> 200, success |-> TRUE, filename |-> filename]
       ELSE /\ storeReply' = errorHandler(APIError(<<"Template not found">>, 404))
            /\ UNCHANGED <<templatesDir, deletions>>
  /\ requests' = requests + 1
  /\ UNCHANGED <<uploads, listing>>
  /\ UNCHANGED <<engineVars, apiVars, pairVars>>

StoreNext == UploadTemplate \/ UploadRefused \/ ListTemplates \/ DeleteTemplate

-----------------------------------------------------------------------------
(* Compositions running side by side *)

\* new ExcelJS.Workbook() handing out one workbook per method, kept from call
\* to call
NewWorkbook_PerMethod(h, method) == IF method = "createWorkbook" THEN 1 ELSE 2

\* new ExcelJS.Workbook() in the method named: the place in the heap of a
\* workbook of its own
NewWorkbook(h, method) == Len(h) + 1

\* the heap with an empty workbook at ref
Allocated(h, ref) ==
  [r \in 1..(IF ref > Len(h) THEN ref ELSE Len(h)) |->
     IF r # ref /\ r <= Len(h) THEN h[r] ELSE <<>>]

\* the compositions run: createWorkbook on a request document whose sheets
\* hold one table each, fillTemplate on a template name and a data mapping
Compositions ==
  {[fn |-> "createWorkbook",
    arg |-> [k |-> "obj", template |-> t, sheets |-> Arr(s)]] :
       t \in {Absent, Name(<<"report.xlsx">>)},
       s \in {<<TableSheetDef("Data", GoodTable)>>,
              <<TableSheetDef("Sheet1", GoodTable), TableSheetDef("Data", BadTable)>>}}
  \cup {[fn |-> "fillTemplate", arg |-> [k |-> "obj", template |-> t, data |-> d]] :
          t \in {Name(<<"report.xlsx">>), Name(<<"missing.xlsx">>)},
          d \in {Map(Scalars), Map(<< <<Key.items, ItemList(2)>> >> \o Scalars)}}

\* a composition before its first statement
Job(c) == [fn |-> c.fn, arg |-> c.arg, pc |-> "call", wb |-> 0, at |-> 0, result |-> Absent]

PairIdle == heap = <<>> /\ jobs = <<>>

PairInit ==
  /\ heap = <<>>
  /\ jobs \in {<<Job(c1), Job(c2)>> : c1 \in Compositions, c2 \in Compositions}

\* the sheets of the request document of a job
JobSheets(job) == OrElse(Prop(job.arg, "sheets"), Arr(<<>>)).items

\* where createWorkbook goes after sheet n of the job
AfterSheet(job, n) == IF n < Len(JobSheets(job)) THEN "sheet" ELSE "serialize"

\* the first statement of createWorkbook and of fillTemplate: the workbook
NewJob(j) ==
  /\ jobs[j].pc = "call"
  /\ heap' = Allocated(heap, NewWorkbook(heap, jobs[j].fn))
  /\ jobs' = [jobs EXCEPT ![j].wb = NewWorkbook(heap, jobs[j].fn),
                          ![j].pc = IF jobs[j].fn = "fillTemplate" \/ Truthy(Prop(jobs[j].arg, "template"))
                                    THEN "loadTemplate"
                                    ELSE AfterSheet(jobs[j], 0)]

\* await this.loadTemplate(workbook, ...): the file is read into the workbook
LoadJobTemplate(j) ==
  /\ jobs[j].pc = "loadTemplate"
  /\ IF LoadTemplateAt(TemplatePath(jobs[j].arg.template)).threw
     THEN /\ jobs' = [jobs EXCEPT ![j].pc = "done", ![j].result = [threw |-> TRUE, workbook |-> <<>>]]
          /\ UNCHANGED heap
     ELSE /\ heap' = [heap EXCEPT ![jobs[j].wb] =
                        IF jobs[j].fn = "fillTemplate"
                        THEN WorkbookRows(TemplatePath(jobs[j].arg.template))
                        ELSE TemplateSheets("report.xlsx")]
          /\ jobs' = [jobs EXCEPT ![j].pc = IF jobs[j].fn = "fillTemplate" THEN "fill"
                                            ELSE AfterSheet(jobs[j], 0)]

\* workbook.eachSheet(worksheet => this.fillWorksheetTemplate(worksheet, data))
FillJob(j) ==
  /\ jobs[j].pc = "fill"
  /\ heap' = [heap EXCEPT ![jobs[j].wb] = FillRows(@, jobs[j].arg.data, Len(@), 1, 1)]
  /\ jobs' = [jobs EXCEPT ![j].pc = "serialize"]

\* await this.processSheet(workbook, sheetDef) for the next sheet of the job
SheetJob(j) ==
  /\ jobs[j].pc = "sheet"
  /\ IF processSheet(heap[jobs[j].wb], JobSheets(jobs[j])[jobs[j].at + 1]).threw
     THEN /\ jobs' = [jobs EXCEPT ![j].pc = "done", ![j].result = [threw |-> TRUE, workbook |-> <<>>]]
          /\ UNCHANGED heap
     ELSE /\ heap' = [heap EXCEPT ![jobs[j].wb] =
                        processSheet(@, JobSheets(jobs[j])[jobs[j].at + 1]).workbook]
          /\ jobs' = [jobs EXCEPT ![j].at = @ + 1, ![j].pc = AfterSheet(jobs[j], jobs[j].at + 1)]

\* const buffer = await workbook.xlsx.writeBuffer(); return buffer
SerializeJob(j) ==
  /\ jobs[j].pc = "serialize"
  /\ jobs' = [jobs EXCEPT ![j].pc = "done",
                          ![j].result = [threw |-> FALSE, workbook |-> heap[jobs[j].wb]]]
  /\ UNCHANGED heap

NewWorkbookStep == \E j \in 1..Len(jobs) : NewJob(j) /\ UNCHANGED <<engineVars, apiVars, storeVars>>
LoadTemplateStep == \E j \in 1..Len(jobs) : LoadJobTemplate(j) /\ UNCHANGED <<engineVars, apiVars, storeVars>>
FillStep == \E j \in 1..Len(jobs) : FillJob(j) /\ UNCHANGED <<engineVars, apiVars, storeVars>>
ProcessSheetStep == \E j \in 1..Len(jobs) : SheetJob(j) /\ UNCHANGED <<engineVars, apiVars, storeVars>>
WriteBufferStep == \E j \in 1..Len(jobs) : SerializeJob(j) /\ UNCHANGED <<engineVars, apiVars, storeVars>>

PairNext ==
  \/ NewWorkbookStep \/ LoadTemplateStep \/ FillStep \/ ProcessSheetStep \/ WriteBufferStep

-----------------------------------------------------------------------------
(* Specifications *)

ComposerIdle ==
  /\ payload = Absent /\ workbook = <<>> /\ cpc = "idle" /\ sheetIdx = 0 /\ phase = 0
  /\ itemIdx = 0
  /\ log = <<>>

OutIdle == thrown = Absent /\ response = Absent

FillIdle ==
  /\ template = Absent /\ stored = <<>> /\ data = Absent /\ sheet = <<>> /\ rowsLen = 0 /\ rowNumber = 0
  /\ colNumber = 0 /\ visited = <<>> /\ fpc = "idle"

\* the initial states: one component of the engine is about to be called, the
\* variables of the others rest
InitAddr == AddrInit /\ WriterIdle /\ ComposerIdle /\ OutIdle /\ FillIdle /\ StyleIdle /\ ApiIdle /\ StoreIdle /\ PairIdle
InitWriter == AddrIdle /\ WriterInit /\ ComposerIdle /\ OutIdle /\ FillIdle /\ StyleIdle /\ ApiIdle /\ StoreIdle /\ PairIdle
Init == AddrIdle /\ WriterIdle /\ ComposerInit /\ OutIdle /\ FillIdle /\ StyleIdle /\ ApiIdle /\ StoreIdle /\ PairIdle
InitFill == AddrIdle /\ WriterIdle /\ ComposerIdle /\ OutIdle /\ FillInit /\ StyleIdle /\ ApiIdle /\ StoreIdle /\ PairIdle
InitStyle == AddrIdle /\ WriterIdle /\ ComposerIdle /\ OutIdle /\ FillIdle /\ StyleInit /\ ApiIdle /\ StoreIdle /\ PairIdle
InitApi == AddrIdle /\ WriterIdle /\ ComposerIdle /\ OutIdle /\ FillIdle /\ StyleIdle /\ ApiInit /\ StoreIdle /\ PairIdle
InitStore == AddrIdle /\ WriterIdle /\ ComposerIdle /\ OutIdle /\ FillIdle /\ StyleIdle /\ ApiIdle /\ StoreInit /\ PairIdle
InitPair == AddrIdle /\ WriterIdle /\ ComposerIdle /\ OutIdle /\ FillIdle /\ StyleIdle /\ ApiIdle /\ StoreIdle /\ PairInit

\* the address resolver alone
SpecAddr == InitAddr /\ [][Resolve]_vars

\* the range and table writers alone
SpecWriter == InitWriter /\ [][WriteRange \/ WriteTable]_vars

\* createWorkbook on one request document, up to the response
Spec == Init /\ [][ComposerNext]_vars

\* fillTemplate on one template file and one data mapping, up to the response
SpecFill == InitFill /\ [][FillNext]_vars

\* the style normalizer's functions and the sheet formatting alone, one call
\* each
SpecStyle == InitStyle /\ [][StyleNext]_vars

\* one request to a handler of the controller, up to the answer, and
\* executeSafeQuery on its own
SpecApi == InitApi /\ [][ApiNext]_vars

\* the template directory under a run of upload, list and delete requests
SpecStore == InitStore /\ [][StoreNext]_vars

\* two compositions, the statements of one between those of the other
SpecPair == InitPair /\ [][PairNext]_vars

-----------------------------------------------------------------------------
(* Properties of the address resolver *)

\* the alphabet, written out: the decoding side of the round trip
Alphabet ==
  << "A", "B", "C", "D", "E", "F", "G", "H", "I", "J", "K", "L", "M",
     "N", "O", "P", "Q", "R", "S", "T", "U", "V", "W", "X", "Y", "Z" >>

\* the zero-based index of an uppercase letter
LetterIndex(ch) == (CHOOSE i \in 1..26 : Alphabet[i] = ch) - 1

\* s matches [A-Z]+[0-9]+ from its first to its last character
WellFormedAddress(s) ==
  LET u == UpperRun(s, 1)
      d == DigitRun(s, Len(u) + 1)
  IN u # <<>> /\ d # <<>> /\ Len(u) + Len(d) = Len(s)

\* C6: for a single uppercase anchor letter, a positive row and a non-negative
\* column offset, the returned address is one letter, whose zero-based index
\* is (anchorIndex + offset) mod 26, followed by the row number unchanged.
C6_ResolveWrapsMod26 ==
  (apc = "done" /\ Len(startCol) = 1 /\ colOffset >= 0 /\ row >= 1) =>
    /\ Len(address) >= 2
    /\ address[1] \in Letters
    /\ LetterIndex(address[1]) = (LetterIndex(startCol[1]) + colOffset) % 26
    /\ DigitRun(address, 2) = SubSeq(address, 2, Len(address))
    /\ ParseInt(SubSeq(address, 2, Len(address))) = row

\* C6 witness: anchor Y, offset 3, row 10 resolved to B10 (the column wrapped)
C6_Witness ==
  /\ apc = "done" /\ startCol = <<"Y">> /\ colOffset = 3 /\ row = 10
  /\ address = <<"B", "1", "0">>

\* C7: the resolver is total: for a single uppercase anchor letter and any
\* integer offset, negative ones included, the result matches [A-Z]+[0-9]+,
\* and for an anchor column of several letters (the call never fails) the
\* result is the column found by base-26 arithmetic on the whole anchor column.
C7_ResolveTotal ==
  apc = "done" =>
    /\ WellFormedAddress(address)
    /\ Len(startCol) > 1 =>
         ColumnNumber(UpperRun(address, 1)) = ColumnNumber(startCol) + colOffset

-----------------------------------------------------------------------------
(* Properties of the table and range writers *)

\* the start component of the anchor the writer was given
AnchorText == IF Truthy(Prop(wdef, "range")) THEN SplitColonFirst(wdef.range.cs) ELSE <<"A", "1">>

\* the anchor position by the spreadsheet's own column arithmetic (AA = 27)
Anchor == DecodeAddress(AnchorText)

\* the anchor names a cell: it has a column and a row
AnchorValid == WellFormedAddress(AnchorText)

\* the headers of the table written: the keys of the first row
Headers == ObjectKeys(wdef.data.items[1])

\* the positions at which the writer assigned a value
WrittenPositions == {wout.writes[i].pos : i \in 1..Len(wout.writes)}

\* C2: without a header sub-style every header cell written by processTable
\* ends up bold, white, on a dark-blue solid fill, centred.
C2_DefaultHeaderStyle ==
  (wpc = "tableDone" /\ ~wout.threw /\ ~Truthy(Prop(Prop(wdef, "style"), "header"))) =>
    \A i \in 1..Len(Headers) :
      LET c == CellAt(worksheet, wout.writes[i].pos)
      IN /\ Prop(c.font, "bold") = Bool(TRUE)
         /\ Prop(Prop(c.font, "color"), "argb") = Chars(<<"F", "F", "F", "F", "F", "F", "F", "F">>)
         /\ Prop(c.fill, "pattern") = Str("solid")
         /\ Prop(Prop(c.fill, "fgColor"), "argb") = Chars(<<"F", "F", "3", "6", "6", "0", "9", "2">>)
         /\ Prop(c.alignment, "horizontal") = Str("center")

\* C8: for N >= 1 row mappings at a valid anchor, processTable writes exactly
\* 1 + N rows starting at the anchor: header j of the first row's keys is in
\* column j counted from the anchor column, body row i holds row i's value for
\* header j in column j (blank when row i lacks the key), and the value of a
\* key that the first row lacks is written nowhere.
C8_TableShape ==
  (wpc = "tableDone" /\ AnchorValid /\ Len(wdef.data.items) >= 1 /\ Headers # <<>>) =>
    /\ {p[1] : p \in WrittenPositions} = Anchor.row..(Anchor.row + Len(wdef.data.items))
    /\ \A j \in 1..Len(Headers) :
         CellAt(worksheet, <<Anchor.row, Anchor.col + j - 1>>).value = Str(Headers[j])
    /\ \A i \in 1..Len(wdef.data.items) : \A j \in 1..Len(Headers) :
         CellAt(worksheet, <<Anchor.row + i, Anchor.col + j - 1>>).value
           = Lookup(wdef.data.items[i], Headers[j])
    /\ \A p \in DOMAIN worksheet.cells :
         \/ worksheet.cells[p].value # Str("dropped")
         \/ Lookup(wdef.data.items[1], "Extra") = Str("dropped")

\* the <<rowIndex, colIndex>> pairs (zero-based) of the elements of range data
DataIndexes ==
  {<<r, c>> \in (0..MaxDataRows) \X (0..MaxRangeCols) :
     /\ r < Len(wdef.data.items)
     /\ IsArray(wdef.data.items[r + 1])
     /\ c < Len(wdef.data.items[r + 1].items)}

\* C9: processRange writes data[r][c] at (anchorRow + r, anchorColumn + c) for
\* every element of the data, the anchor being the start component of the range
\* string; the cells written are determined by that anchor and the data alone.
C9_RangeWrite ==
  (wpc = "rangeDone" /\ AnchorValid) =>
    /\ ~wout.threw
    /\ \A ix \in DataIndexes :
         CellAt(worksheet, <<Anchor.row + ix[1], Anchor.col + ix[2]>>).value
           = wdef.data.items[ix[1] + 1].items[ix[2] + 1]
    /\ WrittenPositions = {<<Anchor.row + ix[1], Anchor.col + ix[2]>> : ix \in DataIndexes}

-----------------------------------------------------------------------------
(* Properties of the workbook composer *)

\* the place of a step in the documented order: the workbook is created, the
\* template is loaded, the sheets are processed, the workbook is serialized
StageRank(step) ==
  CASE step = "create" -> 0
    [] step = "template" -> 1
    [] step = "serialize" -> 3
    [] OTHER -> 2

\* the place of a step within its sheet
StepRank(step) ==
  CASE step = "sheet" -> 0
    [] step = "cells" -> 1
    [] step = "ranges" -> 2
    [] step = "tables" -> 3
    [] step = "formatting" -> 4
    [] OTHER -> 0

\* entry a comes strictly before entry b in the documented order
Precedes(a, b) ==
  \/ StageRank(a.step) < StageRank(b.step)
  \/ /\ StageRank(a.step) = StageRank(b.step)
     /\ \/ a.sheet < b.sheet
        \/ a.sheet = b.sheet /\ StepRank(a.step) < StepRank(b.step)
        \/ a.sheet = b.sheet /\ StepRank(a.step) = StepRank(b.step) /\ a.item < b.item

\* the steps of the given name taken so far
Taken(step) == {i \in 1..Len(log) : log[i].step = step}

\* the writer steps that failed
Failures == {i \in 1..Len(log) : log[i].step \in {"cells", "ranges", "tables"} /\ ~log[i].ok}

\* C3: the steps of createWorkbook are taken in the documented order, each at
\* most once: the template before any sheet, the sheets in the order given,
\* within a sheet its cells, then its ranges, then its tables, then its
\* formatting, and the serialization only after every sheet has been started.
C3_ComposerOrder ==
  /\ \A i \in 1..Len(log) : \A j \in (i + 1)..Len(log) : Precedes(log[i], log[j])
  /\ Taken("serialize") # {} =>
       \A n \in 1..Len(Sheets) : \E i \in Taken("sheet") : log[i].sheet = n

\* C3 witness: a workbook on a template, with two sheets of which one has
\* cells, ranges, tables and formatting, has been serialized
C3_Witness ==
  /\ cpc = "done" /\ response.k = "buffer"
  /\ Len(Sheets) = 2
  /\ Taken("template") # {} /\ Taken("cells") # {} /\ Taken("ranges") # {}
  /\ Taken("tables") # {} /\ Taken("formatting") # {} /\ Taken("serialize") # {}

\* C4: after a failure in a cell, range or table of one sheet, the sheets
\* listed after it are still processed.
C4_SiblingSheetsProcessed ==
  cpc = "done" =>
    \A f \in Failures : \A n \in (log[f].sheet + 1)..Len(Sheets) :
      \E i \in Taken("sheet") : log[i].sheet = n

\* C4 as the code has it: a failure in a cell, range or table is the last
\* step createWorkbook takes: no further step of that sheet, no later sheet
\* and no serialization follows it, and the caller gets a 422 and no workbook.
C4_FailureAbortsWorkbook ==
  \A f \in Failures :
    /\ f = Len(log)
    /\ response.k # "buffer"
    /\ cpc = "done" => response.status = 422

\* C4 witness: the first of two sheets failed, the second was never started,
\* and the request ended with a 422
C4_Witness ==
  /\ cpc = "done" /\ Len(Sheets) = 2
  /\ \E f \in Failures : log[f].sheet = 1
  /\ \A i \in 1..Len(log) : log[i].sheet < 2
  /\ response.k = "error" /\ response.status = 422

\* C5: a request for a template file that does not exist ends with status
\* 404, through createWorkbook and through fillTemplate alike.
C5_MissingTemplateIs404 ==
  /\ (cpc = "done" /\ Truthy(Prop(payload, "template")) /\ payload.template.s \notin TemplateFiles)
       => response.status = 404
  /\ (fpc = "done" /\ template.s \notin TemplateFiles) => response.status = 404

-----------------------------------------------------------------------------
(* Properties of the template filler *)

\* the key of the first array marker of a cell, <<>> if it has none
CellMarkerKey(v) ==
  IF IsStringCell(v) /\ FirstMarker(v.cs) > 0 THEN MarkerKey(v.cs, FirstMarker(v.cs)) ELSE <<>>

\* the cells of a row that hold a marker whose key names an array of d with
\* at least one element
ArrayCells(cells, d) ==
  {c \in 1..Len(cells) :
     /\ CellMarkerKey(cells[c]) # <<>>
     /\ IsArray(Lookup(d, CellMarkerKey(cells[c])))
     /\ Len(Lookup(d, CellMarkerKey(cells[c])).items) >= 1}

\* the keys of the placeholders of a text
PlaceholderKeys(s) ==
  {SubSeq(s, i + 2, i + 1 + PlaceholderAt(s, i)) : i \in {j \in 1..Len(s) : PlaceholderAt(s, j) > 0}}

\* no placeholder of the row names a key of d: all of them are item fields
ItemFieldsOnly(cells, d) ==
  \A c \in 1..Len(cells) :
    IsStringCell(cells[c]) => \A key \in PlaceholderKeys(cells[c].cs) : Lookup(d, key).k = "absent"

\* the template rows with an array marker, and the first of them
ArrayRows == {r \in 1..Len(stored) : ArrayCells(stored[r], data) # {}}
FirstArrayRow == CHOOSE r \in ArrayRows : \A q \in ArrayRows : r <= q

\* the elements of the array the first array row expands
FirstArrayItems ==
  Lookup(data, CellMarkerKey(stored[FirstArrayRow][CHOOSE c \in ArrayCells(stored[FirstArrayRow], data) : TRUE])).items

\* C1: a template row with a marker {{#key}}, data[key] an array of N >= 1
\* elements: the filled sheet holds N consecutive rows from the template row's
\* index on, the i-th of which has the template row's cells with the marker
\* stripped and every {{field}} replaced by element i's value, and none of
\* which has marker text left.
C1_ArrayExpansion ==
  (/\ fpc = "done" /\ response.k = "buffer"
   /\ ArrayRows # {}
   /\ Cardinality(ArrayCells(stored[FirstArrayRow], data)) = 1
   /\ ItemFieldsOnly(stored[FirstArrayRow], data)) =>
    \A i \in 1..Len(FirstArrayItems) :
      /\ FirstArrayRow + i - 1 <= Len(sheet)
      /\ sheet[FirstArrayRow + i - 1] = FillItemRow(stored[FirstArrayRow], FirstArrayItems[i])
      /\ \A c \in 1..Len(sheet[FirstArrayRow + i - 1]) :
           CellMarkerKey(sheet[FirstArrayRow + i - 1][c]) = <<>>

\* no cell of the template holds a marker whose key names an array of the data
NoArrayMarker ==
  \A r \in 1..Len(stored) : \A c \in 1..Len(stored[r]) :
    CellMarkerKey(stored[r][c]) = <<>> \/ ~IsArray(Lookup(data, CellMarkerKey(stored[r][c])))

\* C10: in the filled sheet no string cell has a placeholder {{key}} left whose
\* key the data has, and a sheet without array markers is the template with every
\* such placeholder replaced by the text of data[key] and nothing else changed.
C10_ScalarSubstitution ==
  (fpc = "done" /\ response.k = "buffer") =>
    /\ \A r \in 1..Len(sheet) : \A c \in 1..Len(sheet[r]) :
         IsStringCell(sheet[r][c]) =>
           \A key \in PlaceholderKeys(sheet[r][c].cs) : Lookup(data, key).k = "absent"
    /\ NoArrayMarker =>
         /\ Len(sheet) = Len(stored)
         /\ \A r \in 1..Len(stored) : \A c \in 1..Len(stored[r]) :
              sheet[r][c] = IF IsStringCell(stored[r][c])
                            THEN Chars(ReplacePlaceholders(stored[r][c].cs, 1, data))
                            ELSE stored[r][c]

\* the cell the next step of the iteration visits, <<0, 0>> if it visits none
NextVisit ==
  IF fpc = "rows" /\ rowNumber <= rowsLen /\ NextCell(sheet[rowNumber], colNumber) > 0
  THEN <<rowNumber, NextCell(sheet[rowNumber], colNumber)>>
  ELSE <<0, 0>>

\* the cell at position p of sh holds a marker whose key names no array of d
MarkerWithoutArray(sh, d, p) ==
  /\ CellMarkerKey(sh[p[1]][p[2]]) # <<>>
  /\ ~IsArray(Lookup(d, CellMarkerKey(sh[p[1]][p[2]])))

\* C11: a step on a cell whose marker {{#key}} names no array in the data
\* (data[key] absent or not an array) inserts no row, leaves every other row
\* as it is, and leaves the marker text in the cell.
C11_MarkerWithoutArray ==
  [][(NextVisit # <<0, 0>> /\ MarkerWithoutArray(sheet, data, NextVisit)) =>
       /\ Len(sheet') = Len(sheet)
       /\ \A q \in 1..Len(sheet) : q # NextVisit[1] => sheet'[q] = sheet[q]
       /\ CellMarkerKey(sheet'[NextVisit[1]][NextVisit[2]])
            = CellMarkerKey(sheet[NextVisit[1]][NextVisit[2]])]_vars

\* C11 witness: a filled sheet in which a visited cell had a marker without
\* array data: it still has the marker and the sheet has the template's rows
C11_Witness ==
  /\ fpc = "done" /\ response.k = "buffer"
  /\ Len(sheet) = Len(stored)
  /\ \E i \in 1..Len(visited) :
       /\ MarkerWithoutArray(stored, data, visited[i])
       /\ CellMarkerKey(sheet[visited[i][1]][visited[i][2]])
            = CellMarkerKey(stored[visited[i][1]][visited[i][2]])

-----------------------------------------------------------------------------
(* Properties of the style normalizer *)

\* the style attributes of a cell
StyleAttributes == {"font", "fill", "alignment", "border", "numFmt"}

\* the StyleSpec has no sub-object for attribute a (the fill is given by fill
\* or by backgroundColor)
SubObjectAbsent(style, a) ==
  IF a = "fill"
  THEN Prop(style, "fill") = Absent /\ Prop(style, "backgroundColor") = Absent
  ELSE Prop(style, a) = Absent

\* C12: applyCellStyle leaves the cell's value alone, and every style attribute
\* whose sub-object is absent from the StyleSpec has after the call the value
\* it had before the call.
C12_StylePartial ==
  spc = "styled" =>
    /\ cellAfter.value = cellBefore.value
    /\ \A a \in StyleAttributes :
         SubObjectAbsent(styleArg, a) => cellAfter[a] = cellBefore[a]

\* C12 witness: a cell with an alignment got a StyleSpec with a font and no
\* alignment: the font changed, the alignment is the one it had
C12_Witness ==
  /\ spc = "styled"
  /\ cellBefore.alignment # Absent
  /\ SubObjectAbsent(styleArg, "alignment") /\ ~SubObjectAbsent(styleArg, "font")
  /\ cellAfter.font # cellBefore.font
  /\ cellAfter.alignment = cellBefore.alignment

\* the StyleSpec with the sub-object of attribute a alone
Only(style, a) ==
  [f \in DOMAIN style |->
     IF f = "k" \/ f = a \/ (a = "fill" /\ f = "backgroundColor") THEN style[f] ELSE Absent]

\* C14: every attribute whose sub-object is present in the StyleSpec has after
\* the call the value that sub-object gives it when it is applied alone,
\* whatever happens to the other sub-objects of the StyleSpec.
C14_OtherSubStylesApplied ==
  spc = "styled" =>
    \A a \in StyleAttributes :
      ~SubObjectAbsent(styleArg, a) =>
        cellAfter[a] = applyCellStyle(cellBefore, Only(styleArg, a))[a]

\* the seven tags and their default number formats
DefaultFormat ==
  [number |-> "0.00", currency |-> "$#,##0.00", percentage |-> "0.00%", date |-> "mm/dd/yyyy",
   datetime |-> "mm/dd/yyyy hh:mm:ss", time |-> "hh:mm:ss", text |-> "@"]

\* C15: for each of the seven tags applyCellDataType sets the number format to
\* the explicit format when one is supplied, else to the default of the tag.
C15_DataTypeFormat ==
  (spc = "typed" /\ dataTypeArg.s \in DOMAIN DefaultFormat) =>
    cellAfter.numFmt = IF Truthy(formatArg) THEN formatArg ELSE Str(DefaultFormat[dataTypeArg.s])

\* the uppercase of a hex digit, written out
HexUpper(ch) ==
  CASE ch = "a" -> "A" [] ch = "b" -> "B" [] ch = "c" -> "C"
    [] ch = "d" -> "D" [] ch = "e" -> "E" [] ch = "f" -> "F"
    [] OTHER -> ch

\* the characters of a colour after its leading '#', if it has one
AfterLeadingHash(cs) == IF cs # <<>> /\ cs[1] = "#" THEN Tail(cs) ELSE cs

\* cs is a run of at least one hex digit
IsHexRun(cs) ==
  /\ cs # <<>>
  /\ \A i \in 1..Len(cs) :
       cs[i] \in {"0", "1", "2", "3", "4", "5", "6", "7", "8", "9",
                  "a", "b", "c", "d", "e", "f", "A", "B", "C", "D", "E", "F"}

\* C16: normalizeColor returns FF000000 for an absent colour; for hex digits
\* with or without a leading '#' it returns the digits in uppercase, after FF
\* when they are exactly 6; and its result normalizes to itself.
C16_ColorNormalized ==
  spc = "normalized" =>
    /\ colorArg = Absent =>
         colorOut = [threw |-> FALSE, argb |-> <<"F", "F", "0", "0", "0", "0", "0", "0">>]
    /\ (colorArg.k = "chars" /\ IsHexRun(AfterLeadingHash(colorArg.cs))) =>
         /\ ~colorOut.threw
         /\ colorOut.argb =
              (IF Len(AfterLeadingHash(colorArg.cs)) = 6 THEN <<"F", "F">> ELSE <<>>)
                \o [i \in 1..Len(AfterLeadingHash(colorArg.cs)) |->
                      HexUpper(AfterLeadingHash(colorArg.cs)[i])]
         /\ normalizeColor(Chars(colorOut.argb)) = colorOut

\* C16 witness: "#abc123" was normalized to "FFABC123"
C16_Witness ==
  /\ spc = "normalized"
  /\ colorArg = Chars(<<"#", "a", "b", "c", "1", "2", "3">>)
  /\ colorOut.argb = <<"F", "F", "A", "B", "C", "1", "2", "3">>

\* the call the writer made, on worksheet ws with definition def
WriterCall(ws, def) ==
  IF wpc = "rangeDone" THEN processRange(ws, def) ELSE processTable(ws, def)

\* the writer's outcome and the values of the cells are those of plain
SameValues(plain) ==
  /\ wout.threw = plain.threw
  /\ wout.writes = plain.writes
  /\ DOMAIN worksheet.cells = DOMAIN plain.ws.cells
  /\ \A pos \in DOMAIN worksheet.cells :
       worksheet.cells[pos].value = plain.ws.cells[pos].value

\* C13: the StyleSpec of a range or table write decides neither whether the
\* write ends with an error nor which values it writes: the outcome and every
\* cell's value are those of the same write without the StyleSpec, and each
\* written cell holds the last value written to it.
C13_StyleNeverAborts ==
  wpc \in {"rangeDone", "tableDone"} =>
    /\ SameValues(WriterCall(NewWorksheet("Sheet1"), [wdef EXCEPT !.style = Absent]))
    /\ \A i \in 1..Len(wout.writes) :
         (\A j \in (i + 1)..Len(wout.writes) : wout.writes[j].pos # wout.writes[i].pos) =>
           CellAt(worksheet, wout.writes[i].pos).value = wout.writes[i].value

\* C13 witness: a table without a header sub-style was written to the end;
\* the default header style failed on the first header cell (it has no font)
\* and the cell has the header's name
C13_Witness ==
  /\ wpc = "tableDone" /\ ~wout.threw
  /\ ~Truthy(Prop(Prop(wdef, "style"), "header"))
  /\ Len(wout.writes) > Len(ObjectKeys(wdef.data.items[1]))
  /\ CellAt(worksheet, wout.writes[1].pos).font = Absent
  /\ CellAt(worksheet, wout.writes[1].pos).value = Str(ObjectKeys(wdef.data.items[1])[1])

\* the characters of a range text after its first colon
AfterColon(s) ==
  IF \E i \in 1..Len(s) : s[i] = ":"
  THEN SubSeq(s, 1 + CHOOSE i \in 1..Len(s) : s[i] = ":" /\ \A j \in 1..(i - 1) : s[j] # ":", Len(s))
  ELSE <<>>

\* the position <<row, column>> an address names
PositionOf(s) == <<DecodeAddress(s).row, DecodeAddress(s).col>>

\* C18: a table write with a name, non-empty data and a valid anchor ends
\* without error and registers one table next to the cell writes: its columns
\* are the headers in order, and its rectangle goes from the first cell the
\* call wrote (the anchor) to the column of the last header cell it wrote, on
\* the row of the last body cell it wrote.
C18_TableRegistration ==
  (wpc = "tableDone" /\ Truthy(Prop(wdef, "name")) /\ AnchorValid
     /\ Len(wdef.data.items) >= 1) =>
    /\ ~wout.threw
    /\ Len(worksheet.tables) = 1
    /\ worksheet.tables[1].name = wdef.name
    /\ worksheet.tables[1].columns = Headers
    /\ Len(wout.writes) = Len(Headers) * (1 + Len(wdef.data.items))
    /\ Len(wout.writes) > 0
    /\ PositionOf(SplitColonFirst(worksheet.tables[1].ref)) = wout.writes[1].pos
    /\ PositionOf(AfterColon(worksheet.tables[1].ref))
         = <<wout.writes[Len(wout.writes)].pos[1], wout.writes[Len(Headers)].pos[2]>>

\* the body cell of data row i (from 0) under header j (from 1), as the table
\* write left it
BodyCell(i, j) == CellAt(worksheet, wout.writes[Len(Headers) * (i + 1) + j].pos)

\* the body and the alternate-row sub-styles of the table written
RowsStyle == Prop(Prop(wdef, "style"), "rows")
AlternateRowsStyle == Prop(Prop(wdef, "style"), "alternateRows")

\* the table write is done and wrote its header row and every data row
TableWritten ==
  /\ wpc = "tableDone"
  /\ Len(wdef.data.items) >= 1
  /\ Len(wout.writes) = Len(Headers) * (1 + Len(wdef.data.items))

\* C17: every style attribute of a body cell is the one the body sub-style
\* gives, except on the rows of odd index, where the attributes the
\* alternate-row sub-style has a sub-object for are the ones it gives; rows of
\* even index have nothing of the alternate-row sub-style.
C17_AlternateRowsLayered ==
  TableWritten =>
    \A i \in 0..(Len(wdef.data.items) - 1), j \in 1..Len(Headers), a \in StyleAttributes :
      BodyCell(i, j)[a] =
        IF i % 2 = 1 /\ Truthy(AlternateRowsStyle) /\ ~SubObjectAbsent(AlternateRowsStyle, a)
        THEN Styled(NullCell, AlternateRowsStyle)[a]
        ELSE Styled(NullCell, RowsStyle)[a]

\* C17 witness: a table of two data rows with both sub-styles: the second
\* row's cell has the alternate fill over the body alignment, the first row's
\* cell has the body alignment and no fill
C17_Witness ==
  /\ TableWritten /\ Len(wdef.data.items) = 2 /\ Len(Headers) >= 1
  /\ Truthy(RowsStyle) /\ Truthy(AlternateRowsStyle)
  /\ BodyCell(1, 1).fill # Absent
  /\ BodyCell(1, 1).alignment = Styled(NullCell, RowsStyle).alignment
  /\ BodyCell(1, 1).alignment # Absent
  /\ BodyCell(0, 1).fill = Absent
  /\ BodyCell(0, 1).alignment = BodyCell(1, 1).alignment

-----------------------------------------------------------------------------
(* Properties of the sheets of a workbook *)

\* the indexes of the sheets of wb that have the name
Named(wb, name) == {i \in 1..Len(wb) : wb[i].name = name}

\* no two sheets of wb have the same name
UniqueNames(wb) == \A i, j \in 1..Len(wb) : wb[i].name = wb[j].name => i = j

\* the name of the SheetSpec being processed
SheetName == Sheets[sheetIdx].name.s

\* C19: the first statement of processSheet leaves the workbook as it is when
\* a sheet of the SheetSpec's name exists, and else adds exactly one sheet of
\* that name after the others; the writes of the SheetSpec change the sheet of
\* that name and no other; and the names of the sheets stay unique.
C19_FetchOrCreate ==
  [][/\ cpc = "sheet" =>
          IF Named(workbook, SheetName) # {}
          THEN workbook' = workbook
          ELSE /\ Len(workbook') = Len(workbook) + 1
               /\ SubSeq(workbook', 1, Len(workbook)) = workbook
               /\ workbook'[Len(workbook')].name = SheetName
     /\ cpc = "step" =>
          /\ Len(workbook') = Len(workbook)
          /\ \A i \in 1..Len(workbook) :
               workbook[i].name # SheetName => workbook'[i] = workbook[i]
     /\ UniqueNames(workbook) => UniqueNames(workbook')]_vars

\* C19 witness: on a template with the sheet Sheet1, a SheetSpec named Sheet1
\* and one named Data were processed: the workbook has the template's sheet,
\* now with the SheetSpec's cell A3 next to the template's A1, and one new sheet
C19_Witness ==
  /\ cpc = "done" /\ response.k = "buffer"
  /\ Truthy(Prop(payload, "template"))
  /\ Len(Sheets) = 2 /\ Sheets[1].name = Str("Sheet1") /\ Sheets[2].name = Str("Data")
  /\ Len(workbook) = 2 /\ workbook[1].name = "Sheet1" /\ workbook[2].name = "Data"
  /\ CellAt(workbook[1], <<1, 1>>).value = Str("Title")
  /\ CellAt(workbook[1], <<3, 1>>).value = Str("Product")

-----------------------------------------------------------------------------
(* Properties of the sheet formatting *)

\* the number of characters of a cell's value written out, an empty cell
\* counting as 10
RenderedLength(v) ==
  IF v = Absent \/ v = Str("") THEN 10
  ELSE CASE v.k = "str" -> Len(v.s)
         [] v.k = "num" -> Len(DecimalString(v.n))
         [] v.k = "bool" -> IF v.b THEN 4 ELSE 5
         [] OTHER -> 15

\* the longest rendered value of column c of ws
Longest(ws, c) == MaxOf({RenderedLength(CellAt(ws, <<r, c>>).value) : r \in 1..LastRow(ws)})

\* C20: with the auto-width flag set, every column of the sheet has after the
\* call the width min(L + 2, 50), L being the length of the longest rendered
\* value of the column's cells, an empty cell counting as 10.
C20_AutoWidth ==
  (spc = "formatted" /\ Truthy(Prop(formattingArg, "autoWidth"))) =>
    \A c \in 1..LastCol(sheetArg) :
      /\ c \in DOMAIN sheetAfter.widths
      /\ sheetAfter.widths[c] =
           IF Longest(sheetArg, c) + 2 < MaxWidth THEN Longest(sheetArg, c) + 2 ELSE MaxWidth

-----------------------------------------------------------------------------
(* Properties of the template filler: repeating blocks *)

\* the cell at position p of sh holds a marker whose key names an array of d
\* without elements
MarkerWithEmptyArray(sh, d, p) ==
  /\ CellMarkerKey(sh[p[1]][p[2]]) # <<>>
  /\ IsArray(Lookup(d, CellMarkerKey(sh[p[1]][p[2]])))
  /\ Len(Lookup(d, CellMarkerKey(sh[p[1]][p[2]])).items) = 0

\* C28: a step on a cell whose marker {{#key}} names an array of length 0
\* changes nothing of the sheet: no row is inserted or removed and the cell's
\* text stays as it is, its marker and its single-value placeholders included.
C28_EmptyArrayBlock ==
  [][(NextVisit # <<0, 0>> /\ MarkerWithEmptyArray(sheet, data, NextVisit)) =>
       sheet' = sheet]_vars

\* C28 witness: a filled sheet in which a visited cell had a marker with an
\* empty array and a placeholder the data has a key for: the sheet is the
\* template, the placeholder is still in the cell
C28_Witness ==
  /\ fpc = "done" /\ response.k = "buffer"
  /\ sheet = stored
  /\ \E i \in 1..Len(visited) :
       /\ MarkerWithEmptyArray(stored, data, visited[i])
       /\ \E key \in PlaceholderKeys(sheet[visited[i][1]][visited[i][2]].cs) :
            Lookup(data, key).k # "absent"

\* the elements of the array named by the marker of the cell at position p
MarkerItems(sh, d, p) == Lookup(d, CellMarkerKey(sh[p[1]][p[2]])).items

\* the cell at position p of sh holds a marker whose key names an array of d
\* with at least one element
MarkerWithArray(sh, d, p) ==
  /\ CellMarkerKey(sh[p[1]][p[2]]) # <<>>
  /\ IsArray(Lookup(d, CellMarkerKey(sh[p[1]][p[2]])))
  /\ Len(MarkerItems(sh, d, p)) >= 1

\* C26: a step that expands the row at index r for an array of N >= 1
\* elements makes the sheet N - 1 rows longer; the rows above r are as they
\* were, and every row that was below r is, unchanged and in the same order,
\* N - 1 places further down: the new rows are those at r + 1 .. r + N - 1.
C26_InsertAtOffset ==
  [][(NextVisit # <<0, 0>> /\ MarkerWithArray(sheet, data, NextVisit)) =>
       /\ Len(sheet') = Len(sheet) + Len(MarkerItems(sheet, data, NextVisit)) - 1
       /\ \A q \in 1..(NextVisit[1] - 1) : sheet'[q] = sheet[q]
       /\ \A q \in (NextVisit[1] + 1)..Len(sheet) :
            sheet'[q + Len(MarkerItems(sheet, data, NextVisit)) - 1] = sheet[q]]_vars

\* C26 witness: the first row of a template of two rows was expanded for two
\* elements: the filled sheet has three rows, the template's second row is
\* the third
C26_Witness ==
  /\ fpc = "done" /\ response.k = "buffer"
  /\ Len(stored) = 2 /\ Len(sheet) = 3
  /\ stored[1] # <<>>
  /\ MarkerWithArray(stored, data, <<1, 1>>)
  /\ Len(MarkerItems(stored, data, <<1, 1>>)) = 2
  /\ stored[2] # <<>>
  /\ sheet[3] = stored[2]

\* the positions of the cells of the template that hold a value
TemplateCells ==
  UNION {{<<q, c>> : c \in {j \in 1..Len(stored[q]) : stored[q][j].k # "absent"}} :
           q \in 1..Len(stored)}

\* C27: when the sheet is filled, the iteration has visited as many cells as
\* the template has, each position once: no cell of a template row was left
\* out, wherever insertions moved the row, and none was visited twice (the
\* inserted rows are empty and add no visit).
C27_EveryCellVisitedOnce ==
  (fpc = "done" /\ response.k = "buffer") =>
    /\ Len(visited) = Cardinality(TemplateCells)
    /\ \A i, j \in 1..Len(visited) : visited[i] = visited[j] => i = j

-----------------------------------------------------------------------------
(* Properties of the request handlers *)

\* the template directory
TemplateDirectory == <<"app", "templates">>

\* the files the handler has read
FilesRead == {effects[i].arg : i \in {j \in 1..Len(effects) : effects[j].fn = "readFile"}}

\* C21: whatever template name createWorkbook or fillTemplate is given, the
\* file loadTemplate reads lies inside the template directory.
C21_TemplateInsideDirectory ==
  \A file \in FilesRead : StartsWith(file, TemplateDirectory) /\ Len(file) > Len(TemplateDirectory)

\* a query, by its tokens, begins with SELECT once the blanks before it are
\* dropped
BeginsWithSelect(toks) ==
  \E i \in 1..Len(toks) : toks[i] = "SELECT" /\ \A j \in 1..(i - 1) : toks[j] = "SP"

\* the token at j follows the token at i with nothing but blanks between
BlanksBetween(toks, i, j) == i < j /\ \A m \in (i + 1)..(j - 1) : toks[m] = "SP"

\* a query, by its tokens, holds one of the forms of the denylist: ';' and a
\* statement word followed by a blank, UNION and blanks and SELECT, EXEC and
\* '(', script and '>'
OnDenylist(toks) ==
  \E i, j \in 1..Len(toks) :
    /\ BlanksBetween(toks, i, j)
    /\ \/ toks[i] = "SEMI" /\ toks[j] = "Drop" /\ j < Len(toks) /\ toks[j + 1] = "SP"
       \/ toks[i] = "Union" /\ toks[j] = "SELECT" /\ j > i + 1
       \/ toks[i] = "exec" /\ toks[j] = "LP"
       \/ toks[i] = "script" /\ toks[j] = "GT"

QueryAllowed(toks) == BeginsWithSelect(toks) /\ ~OnDenylist(toks)

\* the queries the handler has handed to executeQuery
QueriesPassed == {effects[i].arg : i \in {j \in 1..Len(effects) : effects[j].fn = "executeQuery"}}

\* C22: executeSafeQuery hands a query to executeQuery only if the trimmed
\* query starts with SELECT and holds none of the forms of the denylist; a
\* query that is rejected fails, and no call of executeQuery is made.
C22_QuerySafetyGate ==
  (route = "executeSafeQuery" /\ hpc = "done") =>
     /\ QueriesPassed # {} => (QueryAllowed(body.toks) /\ QueriesPassed = {TextOf(body.toks)})
     /\ ~QueryAllowed(body.toks) => (QueriesPassed = {} /\ queryData.threw)

C22_Witness ==
  /\ route = "executeSafeQuery" /\ hpc = "done"
  /\ body.toks # <<>> /\ body.toks[1] = "SP"
  /\ QueriesPassed = {TextOf(body.toks)}

\* the keys a handler accepts in the request body and their types, and the
\* keys it requires
KeyTypes(handler) ==
  CASE handler = "generateExcel" ->
         [template |-> "string", filename |-> "string", sheets |-> "array"]
    [] handler = "generateFromQuery" ->
         [query |-> "string", params |-> "array", sheetName |-> "string", filename |-> "string",
          startCell |-> "string", includeHeaders |-> "boolean", style |-> "object"]
    [] handler = "fillTemplate" -> [template |-> "string", data |-> "object", filename |-> "string"]
    [] handler = "generateMultiSheet" -> [sheets |-> "array", filename |-> "string"]
    [] handler = "generateStyledExcel" -> [sheets |-> "array", filename |-> "string"]
    [] handler = "validateQuery" -> [query |-> "string"]

RequiredKeys(handler) ==
  CASE handler = "generateExcel" -> {"sheets"}
    [] handler = "generateFromQuery" -> {"query"}
    [] handler = "fillTemplate" -> {"template", "data"}
    [] handler = "generateMultiSheet" -> {"sheets"}
    [] handler = "generateStyledExcel" -> {"sheets"}
    [] handler = "validateQuery" -> {"query"}

HasType(v, type) ==
  \/ type = "string" /\ v.k \in {"str", "chars", "name", "query"}
  \/ type = "array" /\ v.k = "arr"
  \/ type = "object" /\ v.k \in {"obj", "map"}
  \/ type = "boolean" /\ v.k = "bool"

\* the body passes the validation of the handler
Acceptable(handler, b) ==
  /\ RequiredKeys(handler) \subseteq DOMAIN b
  /\ \A key \in (DOMAIN b) \ {"k"} :
       key \in DOMAIN KeyTypes(handler) /\ HasType(b[key], KeyTypes(handler)[key])

\* the request is one whose body fails the validation of its handler
Rejected == route \in ValidatedHandlers /\ ~Acceptable(route, body)

\* C23: when the body fails the validation of its handler, the handler makes
\* no call at all (no workbook is created, no template read, no query
\* executed), the error is thrown at once and no buffer is sent.
C23_ValidationFirst ==
  Rejected =>
    /\ effects = <<>> /\ validated = Absent /\ queryData = Absent
    /\ hpc # "received" => (raised # Absent /\ raised.statusCode = Num(400))
    /\ reply # Absent => reply.k = "error"

C23_Witness ==
  /\ Rejected /\ hpc = "done" /\ reply.k = "error"
  /\ (DOMAIN body) \ ({"k"} \cup DOMAIN KeyTypes(route)) # {}

\* C24: a request the validation rejects is answered 400 and an error of the
\* Excel processing (thrown with status 422) is answered 422, whatever the
\* text of the message; the body of the answer has success = false.
C24_StatusMapping ==
  (route \in ValidatedHandlers /\ hpc = "done" /\ raised # Absent) =>
     /\ reply.success = FALSE
     /\ Rejected => reply.status = 400
     /\ raised.statusCode = Num(422) => reply.status = 422

\* executeSafeQuery has reason to fail for the request: the connection is not
\* initialised or the query does not pass the gate
QueryMustFail == ~dbConnection \/ ~QueryAllowed(body.query.toks)

\* C29: when executeSafeQuery fails in generateFromQuery, the workbook is
\* built from the sample data and sent; the 404 is the answer only when the
\* query succeeded and gave no row.
C29_QueryFallback ==
  (route = "generateFromQuery" /\ ~Rejected /\ hpc = "done") =>
     /\ (QueryMustFail \/ queryData.threw) =>
          /\ reply.k = "buffer"
          /\ \E i \in 1..Len(effects) :
               effects[i].fn = "generateFromQueryResults" /\ effects[i].arg = getSampleData
     /\ reply.status = 404 => (~queryData.threw /\ ~QueryMustFail /\ queryData.data.items = <<>>)

C29_Witness ==
  /\ route = "generateFromQuery" /\ ~Rejected /\ hpc = "done"
  /\ dbConnection /\ ~QueryAllowed(body.query.toks)
  /\ reply.k = "buffer" /\ reply.workbook # <<>>

-----------------------------------------------------------------------------
(* Properties of the template store *)

\* the stored names of the files uploaded and not deleted since
Stored == {uploads[i] : i \in 1..Len(uploads)} \ deletions

\* C30: a listTemplates call answers with every file that was accepted by
\* the upload filter and stored and has not been deleted since, and with no
\* file that deleteTemplate has deleted.
C30_UploadedIsListed ==
  [][ListTemplates => (Stored \subseteq listing'.names /\ listing'.names \cap deletions = {})]_vars

-----------------------------------------------------------------------------
(* Properties of compositions running side by side *)

\* what the composition of a job gives when it runs alone
Alone(job) ==
  IF job.fn = "createWorkbook"
  THEN [threw |-> createWorkbook(job.arg).threw, workbook |-> createWorkbook(job.arg).workbook]
  ELSE [threw |-> fillTemplate(job.arg.template, job.arg.data).threw,
        workbook |-> fillTemplate(job.arg.template, job.arg.data).workbook]

\* C25: however the statements of two compositions interleave, each ends
\* with the workbook it gives when run alone, and no two compositions work
\* on the same workbook.
C25_Independent ==
  /\ \A j \in 1..Len(jobs) : jobs[j].pc = "done" => jobs[j].result = Alone(jobs[j])
  /\ \A i, j \in 1..Len(jobs) : (i # j /\ jobs[i].wb # 0) => jobs[i].wb # jobs[j].wb

C25_Witness ==
  /\ Len(jobs) = 2 /\ jobs[1].pc = "done" /\ jobs[2].pc = "done"
  /\ jobs[1].fn = "createWorkbook" /\ jobs[2].fn = "createWorkbook"
  /\ ~jobs[1].result.threw /\ ~jobs[2].result.threw
  /\ jobs[1].wb = 2

====
